---------------------------- MODULE Spec2Model ----------------------------
(***************************************************************************)
(* A model of the go-epub publication aggregate (src/epub.go, src/pkg.go): *)
(* the four resource registries, the section sequence, the cover state and *)
(* the package document, with one action per public operation.             *)
(*                                                                         *)
(* A Go string is a sequence of string tokens whose concatenation is the   *)
(* Go string.  File names, sources and paths are tokenised one character   *)
(* per token, so that Base, Ext, ToLower, ValidPath, Clean and the %04d    *)
(* formatting are computed character by character as the library computes  *)
(* them.  Markup and XML vocabulary, which the code only copies and        *)
(* compares whole, are single tokens.  The empty string is << >>.          *)
(***************************************************************************)
EXTENDS Integers, Sequences, FiniteSets, TLC

(***************************************************************************)
(* Bounds of the model.                                                    *)
(***************************************************************************)
\* the number of entries held by the four registries together
MaxMedia == 3
\* the number of sections in the section sequence
MaxSections == 3
\* the number of meta elements of the package document
MaxMeta == 3
\* the manifest items of a package document
MaxManifest == 6

(***************************************************************************)
(* Program constants (src/epub.go:66-99).                                  *)
(***************************************************************************)
EmptyString == << >>
CSSFolderName == <<"c", "s", "s">>
FontFolderName == <<"f", "o", "n", "t", "s">>
ImageFolderName == <<"i", "m", "a", "g", "e", "s">>
VideoFolderName == <<"v", "i", "d", "e", "o", "s">>
\* the text of each "<prefix>%04d%s" format before its verbs
cssFileFormat == <<"c", "s", "s">>
fontFileFormat == <<"f", "o", "n", "t">>
imageFileFormat == <<"i", "m", "a", "g", "e">>
videoFileFormat == <<"v", "i", "d", "e", "o">>
\* "section%04d.xhtml": the text before and after the verb
sectionFileFormatPrefix == <<"s", "e", "c", "t", "i", "o", "n">>
sectionFileFormatSuffix == <<".", "x", "h", "t", "m", "l">>
defaultCoverCSSFilename == <<"c", "o", "v", "e", "r", ".", "c", "s", "s">>
defaultCoverXhtmlFilename == <<"c", "o", "v", "e", "r", ".", "x", "h", "t", "m", "l">>
DotCss == <<".", "c", "s", "s">>
\* `<img src="%s" alt="Cover Image" />`: the text before and after the verb
defaultCoverBodyPrefix == <<"<img src=\"">>
defaultCoverBodySuffix == <<"\" alt=\"Cover Image\" />">>
defaultCoverCSSContent == <<"body { ... } img { max-height: 100%; max-width: 100%; }">>
defaultEpubLang == <<"en">>
urnUUIDPrefix == <<"urn:uuid:">>
\* the length above which addMedia discards a base name
MaxFilenameLen == 255
\* the width of the zero padding of %04d
PadWidth == 4

(***************************************************************************)
(* The string functions of the Go library that the code calls.             *)
(***************************************************************************)
DigitChars == <<"0", "1", "2", "3", "4", "5", "6", "7", "8", "9">>
UpperChars == <<"A", "B", "C", "D", "E", "F", "G", "H", "I", "J", "K", "L", "M",
                "N", "O", "P", "Q", "R", "S", "T", "U", "V", "W", "X", "Y", "Z">>
LowerChars == <<"a", "b", "c", "d", "e", "f", "g", "h", "i", "j", "k", "l", "m",
                "n", "o", "p", "q", "r", "s", "t", "u", "v", "w", "x", "y", "z">>

\* %d: the decimal digits of a natural number
RECURSIVE FormatDecimal(_)
FormatDecimal(n) ==
    IF n < 10 THEN <<DigitChars[n + 1]>>
    ELSE FormatDecimal(n \div 10) \o <<DigitChars[(n % 10) + 1]>>

\* %04d: the decimal digits, padded on the left with zeros to four characters
FormatPadded(n) ==
    LET d == FormatDecimal(n)
    IN  IF Len(d) >= PadWidth THEN d
        ELSE [i \in 1..(PadWidth - Len(d)) |-> "0"] \o d

\* strings.ToLower on the ASCII letters
LowerOf ==
    [c \in {UpperChars[k] : k \in 1..Len(UpperChars)} |->
        LowerChars[CHOOSE k \in 1..Len(UpperChars) : UpperChars[k] = c]]
ToLower(s) ==
    [i \in 1..Len(s) |-> IF s[i] \in DOMAIN LowerOf THEN LowerOf[s[i]] ELSE s[i]]

\* the positions of the path separator in s
SlashPositions(s) == {i \in 1..Len(s) : s[i] = "/"}

SetMax(S) == CHOOSE x \in S : \A y \in S : y <= x

\* s without its trailing path separators
RECURSIVE StripTrailingSlashes(_)
StripTrailingSlashes(s) ==
    IF Len(s) > 0 /\ s[Len(s)] = "/"
    THEN StripTrailingSlashes(SubSeq(s, 1, Len(s) - 1))
    ELSE s

\* filepath.Base (the separator is "/"): the last element of the path
Base(path) ==
    IF path = EmptyString THEN <<".">>
    ELSE LET p == StripTrailingSlashes(path)
             q == IF SlashPositions(p) = {} THEN p
                  ELSE SubSeq(p, SetMax(SlashPositions(p)) + 1, Len(p))
         IN  IF q = EmptyString THEN <<"/">> ELSE q

\* filepath.Ext: the suffix from the last dot of the last element, or ""
Ext(path) ==
    LET from == IF SlashPositions(path) = {} THEN 1
                ELSE SetMax(SlashPositions(path)) + 1
        dots == {i \in from..Len(path) : path[i] = "."}
    IN  IF dots = {} THEN EmptyString ELSE SubSeq(path, SetMax(dots), Len(path))

\* the elements of s between its path separators
RECURSIVE SplitPath(_)
SplitPath(s) ==
    IF SlashPositions(s) = {} THEN <<s>>
    ELSE LET i == CHOOSE x \in SlashPositions(s) : \A y \in SlashPositions(s) : x <= y
         IN  <<SubSeq(s, 1, i - 1)>> \o SplitPath(SubSeq(s, i + 1, Len(s)))

\* fs.ValidPath: "." or slash-separated elements none of which is "", "." or ".."
ValidPath(name) ==
    \/ name = <<".">>
    \/ \A i \in 1..Len(SplitPath(name)) :
          SplitPath(name)[i] \notin {EmptyString, <<".">>, <<".", ".">>}

\* path.Clean on the elements of a path that is not rooted
RECURSIVE CleanElements(_, _)
CleanElements(elems, stack) ==
    IF elems = << >> THEN stack
    ELSE LET e == Head(elems)
             next == IF e = EmptyString \/ e = <<".">> THEN stack
                     ELSE IF e = <<".", ".">>
                          THEN IF stack # << >> /\ stack[Len(stack)] # <<".", ".">>
                               THEN SubSeq(stack, 1, Len(stack) - 1)
                               ELSE Append(stack, e)
                          ELSE Append(stack, e)
         IN  CleanElements(Tail(elems), next)

RECURSIVE JoinElements(_)
JoinElements(elems) ==
    IF elems = << >> THEN EmptyString
    ELSE IF Len(elems) = 1 THEN elems[1]
    ELSE elems[1] \o <<"/">> \o JoinElements(Tail(elems))

\* path.Join("..", folder, filename): joined with "/" and cleaned
PathJoin(folder, filename) ==
    LET cleaned == CleanElements(<<<<".", ".">>, folder>> \o SplitPath(filename), << >>)
    IN  IF cleaned = << >> THEN <<".">> ELSE JoinElements(cleaned)


(***************************************************************************)
(* Errors (src/epub.go:44-63).  NoError is Go's nil error.                 *)
(***************************************************************************)
NoError == [kind |-> "nil"]
FilenameAlreadyUsedError(filename) ==
    [kind |-> "FilenameAlreadyUsedError", Filename |-> filename]
FileRetrievalError(source, err) ==
    [kind |-> "FileRetrievalError", Source |-> source, Err |-> err]
\* what the existence check of the fetch collaborator reports for a missing source
ErrNotFound == [kind |-> "not found"]

(***************************************************************************)
(* Inputs.                                                                 *)
(***************************************************************************)
\* a source whose base name has the shape of a generated CSS name
SourceStylesheet == <<"t", "/", "c", "s", "s", "0", "0", "0", "3", ".", "c", "s", "s">>
\* a source with an upper-case extension
SourcePicture == <<"B", ".", "P", "N", "G">>
Sources == {SourceStylesheet, SourcePicture}
\* the internal filenames callers request: none, or the default cover CSS name
RequestedFilenames == {EmptyString, defaultCoverCSSFilename}
\* what the existence check answers for a source that is no data URL
ProbeResults == {NoError, ErrNotFound}

\* dataurl.EncodeBytes(defaultCoverCSSContent)
EncodeBytes(content) == <<"data:text/plain;charset=utf-8;base64,">> \o content

\* grabber.checkMedia: a data URL is decoded in place, any other source is
\* probed and the probe's answer is the environment's
checkMedia(source, probe) ==
    IF source = EncodeBytes(defaultCoverCSSContent) THEN NoError ELSE probe

(***************************************************************************)
(* The package document (src/pkg.go).                                      *)
(***************************************************************************)
PropertyRole == <<"role">>
PropertyIdentifierType == <<"identifier-type">>
PropertyIdentifierTypeUUID == <<"uuid">>
PropertyModified == <<"dcterms:modified">>
SchemeMARCRelators == <<"marc:relators">>
SchemeXSDString == <<"xsd:string">>
pkgCreatorID == <<"creator">>
xmlnsDc == <<"http://purl.org/dc/elements/1.1/">>

\* a PkgMeta value with every field the zero value
ZeroMeta ==
    [Refines |-> EmptyString, Property |-> EmptyString, Scheme |-> EmptyString,
     ID |-> EmptyString, Data |-> EmptyString, Name |-> EmptyString,
     Content |-> EmptyString]

\* updateMeta: replace the first element equal to m, else append m
updateMeta(a, m) ==
    IF \E i \in 1..Len(a) : a[i] = m
    THEN [a EXCEPT ![CHOOSE i \in 1..Len(a) :
                        a[i] = m /\ \A j \in 1..(i - 1) : a[j] # m] = m]
    ELSE Append(a, m)

\* NewPkg: the template's root attributes and spine attribute, empty lists
NewPkg ==
    [UniqueIdentifier |-> <<"pub-id">>, Version |-> <<"3.0">>,
     XmlnsDc |-> xmlnsDc, Identifier |-> << >>, Title |-> EmptyString,
     Language |-> EmptyString, Description |-> EmptyString,
     Creator |-> << >>, Contributor |-> << >>, Meta |-> << >>,
     ManifestItems |-> << >>, SpineItems |-> << >>, SpineToc |-> <<"ncx">>]

PkgAddIdentifier(p, identifier, typeSchema, typeContent) ==
    LET id == pkgCreatorID \o FormatDecimal(Len(p.Creator))
        meta == [ZeroMeta EXCEPT !.Refines = <<"#">> \o id, !.ID = id,
                                 !.Property = PropertyIdentifierType,
                                 !.Data = typeContent, !.Scheme = typeSchema]
    IN  [p EXCEPT !.Identifier = Append(@, [ID |-> id, Data |-> identifier]),
                  !.Meta = updateMeta(@, meta)]

PkgSetLang(p, lang) == [p EXCEPT !.Language = lang]

PkgSetTitle(p, title) == [p EXCEPT !.Title = title]

\* Pkg.SetCover: the EPUB 2 cover meta element
PkgSetCover(p, coverRef) ==
    [p EXCEPT !.Meta = updateMeta(@, [ZeroMeta EXCEPT !.Name = <<"cover">>,
                                                       !.Content = coverRef])]

PkgAddToManifest(p, id, href, mediaType, properties) ==
    [p EXCEPT !.ManifestItems =
        Append(@, [ID |-> id, Href |-> href, MediaType |-> mediaType,
                   Properties |-> properties])]

PkgAddToSpine(p, id) == [p EXCEPT !.SpineItems = Append(@, [Idref |-> id])]

(***************************************************************************)
(* The publication (src/epub.go:102-161).                                  *)
(***************************************************************************)
VARIABLES
    css,        \* css filename -> css source
    fonts,      \* font filename -> font source
    images,     \* image filename -> image source
    videos,     \* video filename -> video source
    sections,   \* the sequence of epubSection
    cover,      \* the epubCover
    Pkg,        \* the package document
    toc,        \* the table of contents
    last,       \* the last call: its operation and arguments, what the existence
                \* check answered (NoError when it was not asked), and its results
    callers     \* the goroutines inside a method of e.Pkg or of the Epub: where
                \* each one is, its call and what it has read; the package
                \* document when the first of them entered, and the calls made
                \* since; the Epub's mutex

vars == <<css, fonts, images, videos, sections, cover, Pkg, toc, last, callers>>

\* the goroutines that call the methods of e.Pkg while others use the Epub
Goroutines == {1, 2}
\* the calls that overlap
MaxCalls == 2

NoCall == [op |-> "", args |-> << >>]
Idle == \A t \in Goroutines : callers.pc[t] = "idle"

\* there is room for one more overlapping call
OverlapRoom ==
    \/ Idle
    \/ callers.mutex # 0
    \/ Len(callers.done)
         + Cardinality({t \in Goroutines : callers.pc[t] # "idle"}) < MaxCalls

\* a call of a method of Epub, which holds the lock from its first statement to
\* its return (e.Lock(); defer e.Unlock()), made while a goroutine is inside a
\* method of e.Pkg, is one of the overlapping calls; made while none is, it
\* overlaps nothing, and what is kept of earlier overlapping calls is dropped.
\* Made by the goroutine that has taken the mutex, it is that goroutine's
\* call: what is left of it is the deferred Unlock, which a panic runs too
Panicked(call) == call.err = [kind |-> "panic"]
Observed(call) ==
    IF callers.mutex # 0
    THEN [callers EXCEPT !.pc[callers.mutex] = "unlock",
                         !.panicking = IF Panicked(call) THEN callers.mutex ELSE 0]
    ELSE IF Idle
    THEN [callers EXCEPT !.base = NewPkg, !.done = << >>]
    ELSE [callers EXCEPT !.done = Append(@, [op |-> call.op, args |-> call.args])]

EmptyMap == [k \in {} |-> EmptyString]
MapLen(m) == Cardinality(DOMAIN m)
MapPut(m, k, v) == [x \in DOMAIN m \cup {k} |-> IF x = k THEN v ELSE m[x]]
MapDelete(m, k) == [x \in DOMAIN m \ {k} |-> m[x]]

\* the title and the UUID given to NewEpub
Titles == {<<"My title">>}
UUIDs == {<<"51b7c9ea-b2a2-49c6-9d8c-522790786d15">>}

NewEpub(title, uuid) ==
    /\ cover = [cssFilename |-> EmptyString, cssTempFile |-> EmptyString,
                imageFilename |-> EmptyString, xhtmlFilename |-> EmptyString]
    /\ css = EmptyMap
    /\ fonts = EmptyMap
    /\ images = EmptyMap
    /\ videos = EmptyMap
    /\ sections = << >>
    /\ Pkg = PkgSetTitle(
                PkgSetLang(
                    PkgAddIdentifier(NewPkg, urnUUIDPrefix \o uuid, SchemeXSDString,
                                     PropertyIdentifierTypeUUID),
                    defaultEpubLang),
                title)
    /\ toc = [title |-> title]
    /\ last = [op |-> "NewEpub", args |-> <<title>>, probe |-> NoError,
               path |-> EmptyString, err |-> NoError]
    /\ callers = [pc |-> [t \in Goroutines |-> "idle"],
                  call |-> [t \in Goroutines |-> NoCall],
                  snap |-> [t \in Goroutines |-> NewPkg],
                  base |-> NewPkg, done |-> << >>,
                  \* the sync.Mutex of the Epub: its holder, 0 when unlocked
                  mutex |-> 0,
                  \* per goroutine inside a locked method: whether another
                  \* call was in flight when it took the lock, and the
                  \* filename it has settled on
                  contended |-> [t \in Goroutines |-> FALSE],
                  name |-> [t \in Goroutines |-> EmptyString],
                  \* the adds that goroutines have made with success
                  returned |-> << >>,
                  \* a panic on its way up a goroutine's stack (0: none), and
                  \* whether it has ended the process
                  panicking |-> 0, exited |-> FALSE]

Init == \E title \in Titles, uuid \in UUIDs : NewEpub(title, uuid)


(***************************************************************************)
(* addMedia (src/epub.go:386-419).  The result holds the returned path and *)
(* error and the registry as the call leaves it.                           *)
(***************************************************************************)
\* the sequential name numbered by the registry's size, not the size plus one
GeneratedMediaNameBySize(source, mediaFileFormat, mediaMap) ==
    mediaFileFormat \o FormatPadded(MapLen(mediaMap)) \o ToLower(Ext(source))

GeneratedMediaName(source, mediaFileFormat, mediaMap) ==
    mediaFileFormat \o FormatPadded(MapLen(mediaMap) + 1) \o ToLower(Ext(source))

\* the internal filename addMedia settles on (src/epub.go:394-406)
ChosenMediaName(source, internalFilename, mediaFileFormat, mediaMap) ==
    IF internalFilename = EmptyString
    THEN LET base == Base(source)
         IN  IF \/ Len(base) > MaxFilenameLen
                \/ ~ValidPath(base)
                \/ base \in DOMAIN mediaMap
             THEN GeneratedMediaName(source, mediaFileFormat, mediaMap)
             ELSE base
    ELSE internalFilename

\* addMedia without the check of src/epub.go:408-410: a used name is bound
\* again, to the new source
addMediaOverwrites(source, internalFilename, mediaFileFormat, mediaFolderName, mediaMap, probe) ==
    LET err == checkMedia(source, probe)
        name == ChosenMediaName(source, internalFilename, mediaFileFormat, mediaMap)
    IN  IF err # NoError
        THEN [path |-> EmptyString, err |-> FileRetrievalError(source, err),
              mediaMap |-> mediaMap]
        ELSE [path |-> PathJoin(mediaFolderName, name), err |-> NoError,
              mediaMap |-> MapPut(mediaMap, name, source)]

\* addMedia that binds the name before the existence check has passed
addMediaRegistersFirst(source, internalFilename, mediaFileFormat, mediaFolderName, mediaMap, probe) ==
    LET err == checkMedia(source, probe)
        name == ChosenMediaName(source, internalFilename, mediaFileFormat, mediaMap)
    IN  IF name \in DOMAIN mediaMap
        THEN [path |-> EmptyString, err |-> FilenameAlreadyUsedError(name),
              mediaMap |-> mediaMap]
        ELSE IF err # NoError
        THEN [path |-> EmptyString, err |-> FileRetrievalError(source, err),
              mediaMap |-> MapPut(mediaMap, name, source)]
        ELSE [path |-> PathJoin(mediaFolderName, name), err |-> NoError,
              mediaMap |-> MapPut(mediaMap, name, source)]

addMedia(source, internalFilename, mediaFileFormat, mediaFolderName, mediaMap, probe) ==
    LET err == checkMedia(source, probe)
        name == ChosenMediaName(source, internalFilename, mediaFileFormat, mediaMap)
    IN  IF err # NoError
        THEN [path |-> EmptyString, err |-> FileRetrievalError(source, err),
              mediaMap |-> mediaMap]
        ELSE IF name \in DOMAIN mediaMap
        THEN [path |-> EmptyString, err |-> FilenameAlreadyUsedError(name),
              mediaMap |-> mediaMap]
        ELSE [path |-> PathJoin(mediaFolderName, name), err |-> NoError,
              mediaMap |-> MapPut(mediaMap, name, source)]

TotalMedia == MapLen(css) + MapLen(fonts) + MapLen(images) + MapLen(videos)

Called(op, args, probe, r) ==
    [op |-> op, args |-> args, probe |-> probe, path |-> r.path, err |-> r.err]

\* the registries other than the one an add works on hold `others` entries
WithinMedia(r, others) == MapLen(r.mediaMap) + others <= MaxMedia

AddCSS(source, internalFilename, probe) ==
    /\ LET r == addMedia(source, internalFilename, cssFileFormat, CSSFolderName,
                         css, probe)
       IN  /\ WithinMedia(r, TotalMedia - MapLen(css))
           /\ css' = r.mediaMap
           /\ last' = Called("AddCSS", <<source, internalFilename>>, probe, r)
    /\ UNCHANGED <<fonts, images, videos, sections, cover, Pkg, toc>>
    /\ OverlapRoom
    /\ callers' = Observed(last')

\* AddFont in a publication whose filenames are unique across the classes: a
\* name that is a key of another class's registry is refused
AddFontAcrossClasses(source, internalFilename, probe) ==
    /\ LET own == addMedia(source, internalFilename, fontFileFormat, FontFolderName,
                           fonts, probe)
           name == ChosenMediaName(source, internalFilename, fontFileFormat, fonts)
           r == IF own.err = NoError
                   /\ name \in DOMAIN css \cup DOMAIN images \cup DOMAIN videos
                THEN [path |-> EmptyString, err |-> FilenameAlreadyUsedError(name),
                      mediaMap |-> fonts]
                ELSE own
       IN  /\ WithinMedia(r, TotalMedia - MapLen(fonts))
           /\ fonts' = r.mediaMap
           /\ last' = Called("AddFont", <<source, internalFilename>>, probe, r)
    /\ UNCHANGED <<css, images, videos, sections, cover, Pkg, toc>>
    /\ OverlapRoom
    /\ callers' = Observed(last')

AddFont(source, internalFilename, probe) ==
    /\ LET r == addMedia(source, internalFilename, fontFileFormat, FontFolderName,
                         fonts, probe)
       IN  /\ WithinMedia(r, TotalMedia - MapLen(fonts))
           /\ fonts' = r.mediaMap
           /\ last' = Called("AddFont", <<source, internalFilename>>, probe, r)
    /\ UNCHANGED <<css, images, videos, sections, cover, Pkg, toc>>
    /\ OverlapRoom
    /\ callers' = Observed(last')

AddImage(source, imageFilename, probe) ==
    /\ LET r == addMedia(source, imageFilename, imageFileFormat, ImageFolderName,
                         images, probe)
       IN  /\ WithinMedia(r, TotalMedia - MapLen(images))
           /\ images' = r.mediaMap
           /\ last' = Called("AddImage", <<source, imageFilename>>, probe, r)
    /\ UNCHANGED <<css, fonts, videos, sections, cover, Pkg, toc>>
    /\ OverlapRoom
    /\ callers' = Observed(last')

AddVideo(source, videoFilename, probe) ==
    /\ LET r == addMedia(source, videoFilename, videoFileFormat, VideoFolderName,
                         videos, probe)
       IN  /\ WithinMedia(r, TotalMedia - MapLen(videos))
           /\ videos' = r.mediaMap
           /\ last' = Called("AddVideo", <<source, videoFilename>>, probe, r)
    /\ UNCHANGED <<css, fonts, images, sections, cover, Pkg, toc>>
    /\ OverlapRoom
    /\ callers' = Observed(last')

(***************************************************************************)
(* addSection (src/epub.go:260-295).                                       *)
(***************************************************************************)
SectionFilenames(secs) == {secs[i].filename : i \in 1..Len(secs)}

SectionName(index) ==
    sectionFileFormatPrefix \o FormatPadded(index) \o sectionFileFormatSuffix

\* a free-name search that numbers by position: one more than the section count
FreeSectionIndexByCount(secs, index) == Len(secs) + index

\* a free-name search that never advances
FreeSectionIndexFirstTry(secs, index) == index

\* the loop of src/epub.go:263-272: the first index from `index` on whose name
\* no section has
RECURSIVE FreeSectionIndex(_, _)
FreeSectionIndex(secs, index) ==
    IF SectionName(index) \in SectionFilenames(secs)
    THEN FreeSectionIndex(secs, index + 1)
    ELSE index

\* newXhtml(body), setTitle(sectionTitle) and, for a non-empty path, setCSS
NewXhtml(body, sectionTitle, internalCSSPath) ==
    [body |-> body, title |-> sectionTitle, css |-> internalCSSPath]

\* addSection without the check of src/epub.go:274-278
addSectionUnchecked(secs, body, sectionTitle, internalFilename, internalCSSPath) ==
    LET name == IF internalFilename = EmptyString
                THEN SectionName(FreeSectionIndex(secs, 1))
                ELSE internalFilename
    IN  [path |-> name, err |-> NoError,
         sections |-> Append(secs,
             [filename |-> name,
              xhtml |-> NewXhtml(body, sectionTitle, internalCSSPath)])]

addSection(secs, body, sectionTitle, internalFilename, internalCSSPath) ==
    LET name == IF internalFilename = EmptyString
                THEN SectionName(FreeSectionIndex(secs, 1))
                ELSE internalFilename
    IN  IF internalFilename # EmptyString /\ internalFilename \in SectionFilenames(secs)
        THEN [path |-> EmptyString, err |-> FilenameAlreadyUsedError(internalFilename),
              sections |-> secs]
        ELSE [path |-> name, err |-> NoError,
              sections |-> Append(secs,
                  [filename |-> name,
                   xhtml |-> NewXhtml(body, sectionTitle, internalCSSPath)])]

\* the section inputs
SectionBodies == {<<"<h1>Section 1</h1>">>}
SectionTitles == {EmptyString, <<"Section 1">>}
SectionFilenameRequests ==
    {EmptyString, defaultCoverXhtmlFilename, SectionName(2)}

AddSection(body, sectionTitle, internalFilename, internalCSSPath) ==
    /\ LET r == addSection(sections, body, sectionTitle, internalFilename,
                           internalCSSPath)
       IN  /\ Len(r.sections) <= MaxSections
           /\ sections' = r.sections
           /\ last' = Called("AddSection",
                             <<body, sectionTitle, internalFilename, internalCSSPath>>,
                             NoError, r)
    /\ UNCHANGED <<css, fonts, images, videos, cover, Pkg, toc>>
    /\ OverlapRoom
    /\ callers' = Observed(last')


(***************************************************************************)
(* SetCover (src/epub.go:306-374).                                         *)
(***************************************************************************)
\* what a panic leaves in `last`: the call did not return
Panic == [kind |-> "panic"]

\* src/epub.go:312-317: the section sequence without its first section named so
RemoveSection(secs, filename) ==
    IF filename \in SectionFilenames(secs)
    THEN LET i == CHOOSE k \in 1..Len(secs) :
                    /\ secs[k].filename = filename
                    /\ \A j \in 1..(k - 1) : secs[j].filename # filename
         IN  SubSeq(secs, 1, i - 1) \o SubSeq(secs, i + 1, Len(secs))
    ELSE secs

\* no file and no URL has the text of the data URL as its name: the probe of
\* the default stylesheet's source finds nothing, and the source is decoded
NoFileProbe == ErrNotFound

\* src/epub.go:333-358: the default stylesheet, registered as cover.css or, on a
\* collision, under the sequential name; `panic` when neither call registers it
DefaultCoverCSS(cssMap, tempFile) ==
    LET first == addMedia(tempFile, defaultCoverCSSFilename, cssFileFormat,
                          CSSFolderName, cssMap, NoFileProbe)
        coverCSSFilename == cssFileFormat \o FormatPadded(MapLen(cssMap) + 1) \o DotCss
        second == addMedia(tempFile, coverCSSFilename, cssFileFormat,
                           CSSFolderName, cssMap, NoFileProbe)
        r == IF first.err.kind = "FilenameAlreadyUsedError" THEN second ELSE first
    IN  [path |-> r.path, mediaMap |-> r.mediaMap, panic |-> r.err # NoError]

\* the cover section without the retry under a generated name
CoverSectionNoRetry(secs, coverBody, internalCSSPath) ==
    LET r == addSection(secs, coverBody, EmptyString, defaultCoverXhtmlFilename,
                        internalCSSPath)
    IN  [path |-> r.path, sections |-> r.sections,
         panic |-> r.err.kind = "FilenameAlreadyUsedError"]

\* the cover section given a title
CoverSectionTitled(secs, coverBody, internalCSSPath) ==
    LET first == addSection(secs, coverBody, <<"Cover">>, defaultCoverXhtmlFilename,
                            internalCSSPath)
        second == addSection(secs, coverBody, <<"Cover">>, EmptyString,
                             internalCSSPath)
        r == IF first.err.kind = "FilenameAlreadyUsedError" THEN second ELSE first
    IN  [path |-> r.path, sections |-> r.sections,
         panic |-> r.err.kind = "FilenameAlreadyUsedError"]

\* src/epub.go:361-373: the cover section, under cover.xhtml or, on a collision,
\* under a generated name
CoverSection(secs, coverBody, internalCSSPath) ==
    LET first == addSection(secs, coverBody, EmptyString, defaultCoverXhtmlFilename,
                            internalCSSPath)
        second == addSection(secs, coverBody, EmptyString, EmptyString,
                             internalCSSPath)
        r == IF first.err.kind = "FilenameAlreadyUsedError" THEN second ELSE first
    IN  [path |-> r.path, sections |-> r.sections,
         panic |-> r.err.kind = "FilenameAlreadyUsedError"]

\* the paths AddImage and AddCSS returned for the entries now registered
ImagePaths == {PathJoin(ImageFolderName, k) : k \in DOMAIN images}
CSSPaths == {PathJoin(CSSFolderName, k) : k \in DOMAIN css}
\* the image paths given to SetCover: a registered image's, or the path that
\* SourcePicture gets from AddImage, whether or not it is registered now
CoverImageInputs == ImagePaths \cup {PathJoin(ImageFolderName, Base(SourcePicture))}
CoverCSSInputs == CSSPaths \cup {EmptyString}

\* the state a call of SetCover leaves, from the values of its stages, and
\* whether it returned (a panic leaves the assignments made before it)
CoverDone(secs, imgs, cssMap, cov, pkg, err, internalImagePath, internalCSSPath) ==
    /\ Len(secs) <= MaxSections
    /\ MapLen(cssMap) + MapLen(fonts) + MapLen(imgs) + MapLen(videos) <= MaxMedia
    /\ Len(pkg.Meta) <= MaxMeta
    /\ sections' = secs
    /\ images' = imgs
    /\ css' = cssMap
    /\ cover' = cov
    /\ Pkg' = pkg
    /\ last' = [op |-> "SetCover", args |-> <<internalImagePath, internalCSSPath>>,
                probe |-> NoError, path |-> EmptyString, err |-> err]
    /\ UNCHANGED <<fonts, videos, toc>>
    /\ OverlapRoom
    /\ callers' = Observed(last')

\* the whole call, stage by stage; each stage's value is computed once
SetCover(internalImagePath, internalCSSPath) ==
    \E replaces \in {cover.xhtmlFilename # EmptyString} :
    \E secs1 \in {IF replaces THEN RemoveSection(sections, cover.xhtmlFilename)
                  ELSE sections} :
    \E images1 \in {IF replaces THEN MapDelete(images, cover.imageFilename)
                    ELSE images} :
    \E css1 \in {IF replaces THEN MapDelete(css, cover.cssFilename) ELSE css} :
    \E cover1 \in {[cover EXCEPT !.imageFilename = Base(internalImagePath)]} :
    \E pkg1 \in {PkgSetCover(Pkg, cover1.imageFilename)} :
    \E default \in {internalCSSPath = EmptyString} :
    \E tempFile \in {EncodeBytes(defaultCoverCSSContent)} :
    \E cover2 \in {IF default THEN [cover1 EXCEPT !.cssTempFile = tempFile]
                   ELSE cover1} :
    \E d \in {IF default THEN DefaultCoverCSS(css1, tempFile)
              ELSE [path |-> internalCSSPath, mediaMap |-> css1, panic |-> FALSE]} :
    \E cover3 \in {[cover2 EXCEPT !.cssFilename = Base(d.path)]} :
    \E coverBody \in {defaultCoverBodyPrefix \o internalImagePath
                        \o defaultCoverBodySuffix} :
    \E s \in {CoverSection(secs1, coverBody, d.path)} :
    \E cover4 \in {[cover3 EXCEPT !.xhtmlFilename = Base(s.path)]} :
        IF d.panic
        THEN CoverDone(secs1, images1, css1, cover2, pkg1, Panic,
                       internalImagePath, internalCSSPath)
        ELSE IF s.panic
        THEN CoverDone(secs1, images1, d.mediaMap, cover3, pkg1, Panic,
                       internalImagePath, internalCSSPath)
        ELSE CoverDone(s.sections, images1, d.mediaMap, cover4, pkg1, NoError,
                       internalImagePath, internalCSSPath)

(***************************************************************************)
(* Write.  write.go is not among the sources; the steps are those of the   *)
(* specification's export section (4.5), over the package document of      *)
(* src/pkg.go: AddToManifest and AddToSpine append, Pkg.write sets the     *)
(* modification time before it serialises the document.  The document      *)
(* written is the value of Pkg when the call returns.                      *)
(***************************************************************************)
xhtmlFolderName == <<"x", "h", "t", "m", "l">>
tocNavFilename == <<"n", "a", "v", ".", "x", "h", "t", "m", "l">>
tocNcxFilename == <<"t", "o", "c", ".", "n", "c", "x">>
tocNavItemID == <<"n", "a", "v">>
tocNcxItemID == <<"n", "c", "x">>
tocNavItemProperties == <<"n", "a", "v">>
mediaTypeCSS == <<"text/css">>
mediaTypePng == <<"image/png">>
mediaTypeXhtml == <<"application/xhtml+xml">>
mediaTypeNcx == <<"application/x-dtbncx+xml">>
mediaTypeOther == <<"application/octet-stream">>

\* the media type, from the name's extension
MediaTypeOf(filename) ==
    LET ext == ToLower(Ext(filename))
    IN  IF ext = DotCss THEN mediaTypeCSS
        ELSE IF ext = <<".", "p", "n", "g">> THEN mediaTypePng
        ELSE IF ext = <<".", "x", "h", "t", "m", "l">> THEN mediaTypeXhtml
        ELSE mediaTypeOther

\* the manifest id of a filename: lower-cased, prefixed when it begins with a
\* digit, spaces removed (src/epub_test.go:426-428 shows the results)
IsNotSpace(c) == c # " "
fixXMLId(id) ==
    LET lower == ToLower(id)
        prefixed == IF lower # EmptyString /\ (\E k \in 1..Len(DigitChars) : DigitChars[k] = lower[1])
                    THEN <<"i", "d">> \o lower
                    ELSE lower
    IN  SelectSeq(prefixed, IsNotSpace)

\* the location of a file relative to the package document
RelativePath(folder, filename) == folder \o <<"/">> \o filename

\* the orders in which the iteration over a registry can visit its keys
KeyOrders(m) ==
    {o \in [1..MapLen(m) -> DOMAIN m] :
        \A i, j \in 1..MapLen(m) : i # j => o[i] # o[j]}

\* one manifest item per file of a class, in the order visited
RECURSIVE writeMedia(_, _, _)
writeMedia(p, folder, order) ==
    IF order = << >>
    THEN p
    ELSE writeMedia(PkgAddToManifest(p, fixXMLId(Head(order)),
                                     RelativePath(folder, Head(order)),
                                     MediaTypeOf(Head(order)), EmptyString),
                    folder, Tail(order))

\* one manifest item and one spine item per section, in sequence order
RECURSIVE writeSections(_, _)
writeSections(p, secs) ==
    IF secs = << >>
    THEN p
    ELSE writeSections(
             PkgAddToSpine(
                 PkgAddToManifest(p, fixXMLId(Head(secs).filename),
                                  RelativePath(xhtmlFolderName, Head(secs).filename),
                                  mediaTypeXhtml, EmptyString),
                 fixXMLId(Head(secs).filename)),
             Tail(secs))

\* the navigation document and the NCX are manifest items too
writeToc(p) ==
    PkgAddToManifest(
        PkgAddToManifest(p, tocNavItemID, tocNavFilename, mediaTypeXhtml,
                         tocNavItemProperties),
        tocNcxItemID, tocNcxFilename, mediaTypeNcx, EmptyString)

\* Pkg.SetModified (src/pkg.go:342-349)
PkgSetModified(p, timestamp) ==
    [p EXCEPT !.Meta = updateMeta(@, [ZeroMeta EXCEPT !.Data = timestamp,
                                                       !.Property = PropertyModified])]

\* a failed creation reported as a failed retrieval
UnableToCreateEpubErrorAsRetrieval(outputPath, err) ==
    [kind |-> "FileRetrievalError", Source |-> outputPath, Err |-> err]
UnableToCreateEpubError(outputPath, err) ==
    [kind |-> "UnableToCreateEpubError", Path |-> outputPath, Err |-> err]
ErrPermission == [kind |-> "permission denied"]

\* what can happen to a call of Write: the staging directory cannot be made,
\* a source cannot be read any more, the archive cannot be created, or none
WriteOutcomes == {"written", "no staging", "no source", "no archive"}
\* the clock's readings, to the second
Timestamps == {<<"2026-01-01T00:00:00Z">>, <<"2026-01-01T00:00:01Z">>}
OutputPaths == {<<"My EPUB.epub">>}

\* the package document after the manifest, the spine and the modification
\* time have been filled in
WrittenPkg(now, cssOrder, fontOrder, imageOrder, videoOrder) ==
    PkgSetModified(
        writeToc(
            writeSections(
                writeMedia(
                    writeMedia(
                        writeMedia(
                            writeMedia(Pkg, CSSFolderName, cssOrder),
                            FontFolderName, fontOrder),
                        ImageFolderName, imageOrder),
                    VideoFolderName, videoOrder),
                sections)),
        now)

\* the manifest items one call registers: a file's, a section's, and the two
\* of the table of contents
ItemsOfWrite == TotalMedia + Len(sections) + 2

Write(outputPath, outcome, now, cssOrder, fontOrder, imageOrder, videoOrder) ==
    /\ outcome = "no source" => TotalMedia > 0
    /\ outcome \in {"written", "no archive"}
          => Len(Pkg.ManifestItems) + ItemsOfWrite <= MaxManifest
    /\ \E p \in {IF outcome \in {"written", "no archive"}
                 THEN WrittenPkg(now, cssOrder, fontOrder, imageOrder, videoOrder)
                 ELSE Pkg} :
           /\ Len(p.Meta) <= MaxMeta
           /\ Pkg' = p
    /\ last' = [op |-> "Write", args |-> <<outputPath>>,
                \* what the file system answered to the call's creations and reads
                probe |-> CASE outcome \in {"no staging", "no archive"} -> ErrPermission
                            [] outcome = "no source" -> ErrNotFound
                            [] OTHER -> NoError,
                path |-> EmptyString,
                err |-> CASE outcome = "written" -> NoError
                          [] outcome = "no source" ->
                                FileRetrievalError(
                                    CHOOSE s \in {css[k] : k \in DOMAIN css}
                                             \cup {fonts[k] : k \in DOMAIN fonts}
                                             \cup {images[k] : k \in DOMAIN images}
                                             \cup {videos[k] : k \in DOMAIN videos} : TRUE,
                                    ErrNotFound)
                          [] OTHER -> UnableToCreateEpubError(outputPath, ErrPermission)]
    /\ UNCHANGED <<css, fonts, images, videos, sections, cover, toc>>
    /\ OverlapRoom
    /\ callers' = Observed(last')

(***************************************************************************)
(* The publication's calls, one at a time.                                 *)
(***************************************************************************)
AddCSSCall ==
    \E s \in Sources, f \in RequestedFilenames, p \in ProbeResults : AddCSS(s, f, p)
AddFontCall ==
    \E s \in Sources, f \in RequestedFilenames, p \in ProbeResults : AddFont(s, f, p)
AddImageCall ==
    \E s \in Sources, f \in RequestedFilenames, p \in ProbeResults : AddImage(s, f, p)
AddVideoCall ==
    \E s \in Sources, f \in RequestedFilenames, p \in ProbeResults : AddVideo(s, f, p)
AddSectionCall ==
    \E b \in SectionBodies, t \in SectionTitles, f \in SectionFilenameRequests :
        AddSection(b, t, f, EmptyString)
SetCoverCall ==
    \E i \in CoverImageInputs, c \in CoverCSSInputs : SetCover(i, c)

\* the adds that leave the choice of the internal filename to the registry
AddCSSAuto == \E s \in Sources, p \in ProbeResults : AddCSS(s, EmptyString, p)
AddFontAuto == \E s \in Sources, p \in ProbeResults : AddFont(s, EmptyString, p)
AddImageAuto == \E s \in Sources, p \in ProbeResults : AddImage(s, EmptyString, p)
AddVideoAuto == \E s \in Sources, p \in ProbeResults : AddVideo(s, EmptyString, p)

\* the resource registries alone
NextMedia ==
    \/ AddCSSCall
    \/ AddFontCall
    \/ AddImageCall
    \/ AddVideoCall

SpecMedia == Init /\ [][NextMedia]_vars

\* resource adds that all pass an empty requested filename
NextAuto ==
    \/ AddCSSAuto
    \/ AddFontAuto
    \/ AddImageAuto
    \/ AddVideoAuto

SpecAuto == Init /\ [][NextAuto]_vars

\* the section sequence under AddSection and SetCover
NextSections ==
    \/ AddSectionCall
    \/ SetCoverCall

SpecSections == Init /\ [][NextSections]_vars

\* the cover with registered images and stylesheets: pictures and stylesheets
\* are added under the names the registry chooses
AddPicture == \E p \in ProbeResults : AddImage(SourcePicture, EmptyString, p)
AddStylesheet == \E p \in ProbeResults : AddCSS(SourceStylesheet, EmptyString, p)

NextCover ==
    \/ AddPicture
    \/ AddStylesheet
    \/ SetCoverCall

SpecCover == Init /\ [][NextCover]_vars

\* assembling a publication and writing it, more than once
AddSectionAuto ==
    \E b \in SectionBodies, st \in SectionTitles :
        AddSection(b, st, EmptyString, EmptyString)
SetDefaultCover == \E i \in ImagePaths : SetCover(i, EmptyString)
\* a call that fails before the package document is touched reads neither the
\* clock nor the registries' keys
FirstOrder(m) == CHOOSE o \in KeyOrders(m) : TRUE
WriteCall ==
    \/ \E o \in OutputPaths, outcome \in {"written", "no archive"},
          now \in Timestamps,
          cssOrder \in KeyOrders(css), fontOrder \in KeyOrders(fonts),
          imageOrder \in KeyOrders(images), videoOrder \in KeyOrders(videos) :
           Write(o, outcome, now, cssOrder, fontOrder, imageOrder, videoOrder)
    \/ \E o \in OutputPaths, outcome \in {"no staging", "no source"},
          now \in Timestamps :
           Write(o, outcome, now, FirstOrder(css), FirstOrder(fonts),
                 FirstOrder(images), FirstOrder(videos))

NextWrite ==
    \/ AddPicture
    \/ AddSectionAuto
    \/ SetDefaultCover
    \/ WriteCall

SpecWrite == Init /\ [][NextWrite]_vars

\* every call of the publication
Next ==
    \/ AddCSSCall
    \/ AddFontCall
    \/ AddImageCall
    \/ AddVideoCall
    \/ AddSectionCall
    \/ SetCoverCall
    \/ WriteCall

Spec == Init /\ [][Next]_vars

(***************************************************************************)
(* What the claims speak of.                                               *)
(***************************************************************************)
AddOps == {"AddCSS", "AddFont", "AddImage", "AddVideo"}

\* the registry an add works on, before and after the step
RegistryOf(op) ==
    CASE op = "AddCSS" -> css
      [] op = "AddFont" -> fonts
      [] op = "AddImage" -> images
      [] op = "AddVideo" -> videos
RegistryAfter(op) ==
    CASE op = "AddCSS" -> css'
      [] op = "AddFont" -> fonts'
      [] op = "AddImage" -> images'
      [] op = "AddVideo" -> videos'
FolderOf(op) ==
    CASE op = "AddCSS" -> CSSFolderName
      [] op = "AddFont" -> FontFolderName
      [] op = "AddImage" -> ImageFolderName
      [] op = "AddVideo" -> VideoFolderName

\* the step is a call of a resource add
AddStep == last'.op \in AddOps
\* the source and the requested filename of the add the step makes
AddSource == last'.args[1]
AddRequested == last'.args[2]

(***************************************************************************)
(* C1.  A resource add with a non-empty filename that is already a key of  *)
(* its class's registry returns FilenameAlreadyUsedError with that         *)
(* filename and leaves the registry as it was.                             *)
(*                                                                         *)
(* As stated, for every source, the claim fails: the existence check comes *)
(* first, and a source it rejects gets FileRetrievalError.                 *)
(***************************************************************************)
C1_AsClaimed ==
    [][(AddStep /\ AddRequested # EmptyString
          /\ AddRequested \in DOMAIN RegistryOf(last'.op))
       => /\ last'.err = FilenameAlreadyUsedError(AddRequested)
          /\ RegistryAfter(last'.op) = RegistryOf(last'.op)]_vars

\* C1, amended: with a source that passes the existence check, a resource add
\* with a non-empty filename that is already a key of its class's registry
\* returns FilenameAlreadyUsedError with that filename; the registry is as it
\* was, whether or not the source passes the check.
C1_UsedFilenameRejected ==
    [][(AddStep /\ AddRequested # EmptyString
          /\ AddRequested \in DOMAIN RegistryOf(last'.op))
       => /\ last'.probe = NoError
             => last'.err = FilenameAlreadyUsedError(AddRequested)
          /\ RegistryAfter(last'.op) = RegistryOf(last'.op)]_vars

\* a second add under a used name, from another source than the first, was
\* rejected and the name still maps to the first source
C1_Witness ==
    /\ last.op \in AddOps
    /\ last.args[2] # EmptyString
    /\ last.err = FilenameAlreadyUsedError(last.args[2])
    /\ last.args[2] \in DOMAIN RegistryOf(last.op)
    /\ RegistryOf(last.op)[last.args[2]] # last.args[1]

(***************************************************************************)
(* C2.  When the existence check rejects the source, the add returns       *)
(* FileRetrievalError with that source and the check's error, and the four *)
(* registries, the section sequence and the cover state are unchanged,     *)
(* whatever filename was requested.                                        *)
(***************************************************************************)
C2_RejectedSourceNotRegistered ==
    [][(AddStep /\ last'.probe # NoError)
       => /\ last'.err = FileRetrievalError(AddSource, last'.probe)
          /\ last'.path = EmptyString
          /\ UNCHANGED <<css, fonts, images, videos, sections, cover>>]_vars

\* a rejected source, for a requested filename that is free and for one that
\* is empty, in a registry that holds entries
C2_Witness ==
    /\ last.op \in AddOps
    /\ last.err = FileRetrievalError(last.args[1], ErrNotFound)
    /\ last.args[2] # EmptyString
    /\ last.args[2] \notin DOMAIN RegistryOf(last.op)
    /\ RegistryOf(last.op) # EmptyMap

\* the step is a call of AddSection; the filename it asks for
AddSectionStep == last'.op = "AddSection"
SectionRequested == last'.args[3]

(***************************************************************************)
(* C3.  AddSection with a non-empty filename that some section already     *)
(* has, the cover section under cover.xhtml or under its generated name    *)
(* included, returns FilenameAlreadyUsedError and leaves the section       *)
(* sequence unchanged.                                                     *)
(***************************************************************************)
C3_UsedSectionFilenameRejected ==
    [][(AddSectionStep /\ SectionRequested # EmptyString
          /\ SectionRequested \in SectionFilenames(sections))
       => /\ last'.err = FilenameAlreadyUsedError(SectionRequested)
          /\ last'.path = EmptyString
          /\ sections' = sections]_vars

\* the rejected filename is the generated name of the cover section
C3_Witness ==
    /\ last.op = "AddSection"
    /\ last.err = FilenameAlreadyUsedError(last.args[3])
    /\ last.args[3] = cover.xhtmlFilename
    /\ cover.xhtmlFilename # defaultCoverXhtmlFilename
    /\ cover.xhtmlFilename \in SectionFilenames(sections)

(***************************************************************************)
(* C4.  In every state reached by AddSection and SetCover calls the        *)
(* filenames of the sections are pairwise distinct, the cover section      *)
(* included.                                                               *)
(***************************************************************************)
C4_SectionFilenamesDistinct ==
    \A i, j \in 1..Len(sections) :
        i # j => sections[i].filename # sections[j].filename

\* three sections, the cover among them under a generated name, with an
\* explicitly named section next to an automatically named one
C4_Witness ==
    /\ Len(sections) = MaxSections
    /\ cover.xhtmlFilename \in SectionFilenames(sections)
    /\ cover.xhtmlFilename # defaultCoverXhtmlFilename
    /\ defaultCoverXhtmlFilename \in SectionFilenames(sections)

(***************************************************************************)
(* C5.  AddSection with an empty filename does not fail; the filename it   *)
(* returns is none of the section filenames present before the call, and   *)
(* the section is appended under it.                                       *)
(***************************************************************************)
C5_GeneratedSectionNameIsFree ==
    [][(AddSectionStep /\ SectionRequested = EmptyString)
       => /\ last'.err = NoError
          /\ last'.path \notin SectionFilenames(sections)
          /\ Len(sections') = Len(sections) + 1
          /\ SubSeq(sections', 1, Len(sections)) = sections
          /\ sections'[Len(sections')].filename = last'.path]_vars

\* section0002.xhtml was named explicitly before any generated name was given
\* out; the generated names went around it
C5_Witness ==
    /\ last.op = "AddSection"
    /\ last.args[3] = EmptyString
    /\ last.path = SectionName(3)
    /\ Len(sections) = 3
    /\ sections[1].filename = SectionName(2)
    /\ sections[2].filename = SectionName(1)

(***************************************************************************)
(* C6.  In a sequence of adds that all pass an empty filename, every       *)
(* successful add returns a name that was not a key of its registry and    *)
(* binds it to the call's own source, all earlier entries staying as they  *)
(* were; an add that fails changes no registry.  Hence the names returned  *)
(* within one class are pairwise distinct and none is overwritten.         *)
(***************************************************************************)
C6_AutoNamesDistinct ==
    [][(AddStep /\ AddRequested = EmptyString)
       => LET name == Base(last'.path)
              before == RegistryOf(last'.op)
              after == RegistryAfter(last'.op)
          IN  IF last'.err = NoError
              THEN /\ name \notin DOMAIN before
                   /\ last'.path = PathJoin(FolderOf(last'.op), name)
                   /\ DOMAIN after = DOMAIN before \cup {name}
                   /\ after[name] = AddSource
                   /\ \A k \in DOMAIN before : after[k] = before[k]
              ELSE after = before]_vars

\* the third automatically named entry of a class, under a generated name
C6_Witness ==
    /\ last.op \in AddOps
    /\ last.args[2] = EmptyString
    /\ last.err = NoError
    /\ MapLen(RegistryOf(last.op)) = 3
    /\ Base(last.path) # Base(last.args[1])
    /\ RegistryOf(last.op)[Base(last.path)] = last.args[1]

(***************************************************************************)
(* C7.  A resource add with an empty filename and a source that passes the *)
(* existence check succeeds: FilenameAlreadyUsedError is not returned for  *)
(* a generated name.                                                       *)
(***************************************************************************)
C7_AutoNamedAddSucceeds ==
    (last.op \in AddOps /\ last.args[2] = EmptyString /\ last.probe = NoError)
        => last.err = NoError

(***************************************************************************)
(* C8.  After two successive SetCover calls with two different registered  *)
(* images there is exactly one cover section, the image registry holds the *)
(* second cover image and not the first, and the CSS registry holds the    *)
(* cover stylesheet.                                                       *)
(***************************************************************************)
C8_SecondCoverReplacesFirst ==
    [][(/\ last.op = "SetCover" /\ last.err = NoError
        /\ last'.op = "SetCover" /\ last'.err = NoError
        /\ last.args[1] \in ImagePaths
        /\ last'.args[1] \in ImagePaths
        /\ last.args[1] # last'.args[1])
       => /\ Cardinality({i \in 1..Len(sections') :
                            sections'[i].filename = cover'.xhtmlFilename}) = 1
          /\ Base(last'.args[1]) \in DOMAIN images'
          /\ Base(last.args[1]) \notin DOMAIN images'
          /\ cover'.cssFilename \in DOMAIN css']_vars

\* the call that has just returned is a Write that produced the archive
Written == last.op = "Write" /\ last.err = NoError

\* the locations, relative to the package document, of the files present
FileLocations ==
    {RelativePath(CSSFolderName, k) : k \in DOMAIN css}
        \cup {RelativePath(FontFolderName, k) : k \in DOMAIN fonts}
        \cup {RelativePath(ImageFolderName, k) : k \in DOMAIN images}
        \cup {RelativePath(VideoFolderName, k) : k \in DOMAIN videos}
        \cup {RelativePath(xhtmlFolderName, f) : f \in SectionFilenames(sections)}

ManifestItemsAt(href) ==
    {i \in 1..Len(Pkg.ManifestItems) : Pkg.ManifestItems[i].Href = href}

(***************************************************************************)
(* C9.  The package document that a Write has written, a repeated Write    *)
(* included, has exactly one manifest item for each section and each       *)
(* registered resource present at the time.                                *)
(***************************************************************************)
C9_OneManifestItemPerFile ==
    Written => \A href \in FileLocations : Cardinality(ManifestItemsAt(href)) = 1

(***************************************************************************)
(* C10.  In the package document that a Write has written, a repeated      *)
(* Write included, the spine is one itemref per section, the cover section *)
(* included, in the order of the section sequence, and nothing else.       *)
(***************************************************************************)
C10_SpineIsTheSectionSequence ==
    Written =>
        /\ Len(Pkg.SpineItems) = Len(sections)
        /\ \A i \in 1..Len(sections) :
              Pkg.SpineItems[i].Idref = fixXMLId(sections[i].filename)

(***************************************************************************)
(* The cover among stylesheets and sections whose names the caller chose.  *)
(***************************************************************************)
AddNamedStylesheet ==
    \E f \in RequestedFilenames : AddCSS(SourceStylesheet, f, NoError)

NextNames ==
    \/ AddNamedStylesheet
    \/ AddSectionCall
    \/ SetCoverCall

SpecNames == Init /\ [][NextNames]_vars

\* the sections that AddSection calls put in, in their order: the cover
\* section is the one whose body is the cover markup
RECURSIVE AddedSections(_)
AddedSections(secs) ==
    IF secs = << >> THEN << >>
    ELSE IF Head(secs).xhtml.body \in SectionBodies
    THEN <<Head(secs)>> \o AddedSections(Tail(secs))
    ELSE AddedSections(Tail(secs))

SetCoverStep == last'.op = "SetCover"

(***************************************************************************)
(* C11.  A successful AddSection appends exactly one section at the end    *)
(* and leaves the sections before it as they were; SetCover, installing or *)
(* replacing, leaves the sections other than the cover as they were, in    *)
(* content and in order.                                                   *)
(***************************************************************************)
C11_SectionOrderIsInsertionOrder ==
    [][/\ (AddSectionStep /\ last'.err = NoError)
            => /\ Len(sections') = Len(sections) + 1
               /\ SubSeq(sections', 1, Len(sections)) = sections
       /\ SetCoverStep
            => AddedSections(sections') = AddedSections(sections)]_vars

(***************************************************************************)
(* The package-document mutators reached through the public Pkg field      *)
(* (src/epub.go:121, src/pkg.go:237-349).                                  *)
(***************************************************************************)
\* the creators of a package document
MaxCreators == 2
\* the identifiers of a package document
MaxIdentifiers == 2

PropertyRoleAuthor == <<"aut">>
PropertyRoleTranslator == <<"trl">>
PropertyIdentifierTypeDOI == <<"06">>

\* Pkg.AddAuthor with every creator given the same id
PkgAddAuthorSameID(p, author, role) ==
    LET id == pkgCreatorID
        meta == [ZeroMeta EXCEPT !.Refines = <<"#">> \o id, !.ID = id,
                                 !.Property = PropertyRole, !.Data = role,
                                 !.Scheme = SchemeMARCRelators]
    IN  [p EXCEPT !.Creator = Append(@, [ID |-> id, Data |-> author]),
                  !.Meta = updateMeta(@, meta)]

PkgAddAuthor(p, author, role) ==
    LET id == pkgCreatorID \o FormatDecimal(Len(p.Creator))
        meta == [ZeroMeta EXCEPT !.Refines = <<"#">> \o id, !.ID = id,
                                 !.Property = PropertyRole, !.Data = role,
                                 !.Scheme = SchemeMARCRelators]
    IN  [p EXCEPT !.Creator = Append(@, [ID |-> id, Data |-> author]),
                  !.Meta = updateMeta(@, meta)]

\* Pkg.AddContributor: the entry is appended to Metadata.Creator
PkgAddContributor(p, author, role) ==
    LET id == pkgCreatorID \o FormatDecimal(Len(p.Creator))
        meta == [ZeroMeta EXCEPT !.Refines = <<"#">> \o id, !.ID = id,
                                 !.Property = PropertyRole, !.Data = role,
                                 !.Scheme = SchemeMARCRelators]
    IN  [p EXCEPT !.Creator = Append(@, [ID |-> id, Data |-> author]),
                  !.Meta = updateMeta(@, meta)]

PkgAddCustomMeta(p, name, content) ==
    [p EXCEPT !.Meta = updateMeta(@, [ZeroMeta EXCEPT !.Name = name,
                                                       !.Content = content])]

Authors == {<<"Hingle McCringleberry">>, <<"Jane Doe">>}
Roles == {PropertyRoleAuthor, PropertyRoleTranslator}
Identifiers == {<<"doi:10.1000/182">>}
IdentifierTypes == {PropertyIdentifierTypeUUID, PropertyIdentifierTypeDOI}
CustomMetaNames == {<<"generator">>}
CustomMetaContents == {<<"go-epub">>, <<"go-epub 2">>}
\* the names AddImage gives to SourcePicture: its base name, a generated name
CoverRefs ==
    {Base(SourcePicture),
     imageFileFormat \o FormatPadded(2) \o ToLower(Ext(SourcePicture))}

\* a call of a method of e.Pkg: only the package document changes
PkgCall(op, args, p) ==
    /\ Len(p.Creator) <= MaxCreators
    /\ Len(p.Identifier) <= MaxIdentifiers
    /\ Len(p.Meta) <= MaxMeta
    /\ Pkg' = p
    /\ last' = [op |-> op, args |-> args, probe |-> NoError,
                path |-> EmptyString, err |-> NoError]
    /\ UNCHANGED <<css, fonts, images, videos, sections, cover, toc>>
    /\ OverlapRoom
    /\ callers' = Observed(last')

PkgAddAuthorCall ==
    \E author \in Authors, role \in Roles :
        PkgCall("Pkg.AddAuthor", <<author, role>>, PkgAddAuthor(Pkg, author, role))

PkgAddContributorCall ==
    \E author \in Authors, role \in Roles :
        PkgCall("Pkg.AddContributor", <<author, role>>,
                PkgAddContributor(Pkg, author, role))

PkgAddIdentifierCall ==
    \E identifier \in Identifiers, typeContent \in IdentifierTypes :
        PkgCall("Pkg.AddIdentifier", <<identifier, SchemeXSDString, typeContent>>,
                PkgAddIdentifier(Pkg, identifier, SchemeXSDString, typeContent))

PkgAddCustomMetaCall ==
    \E name \in CustomMetaNames, content \in CustomMetaContents :
        PkgCall("Pkg.AddCustomMeta", <<name, content>>,
                PkgAddCustomMeta(Pkg, name, content))

PkgSetCoverCall ==
    \E coverRef \in CoverRefs :
        PkgCall("Pkg.SetCover", <<coverRef>>, PkgSetCover(Pkg, coverRef))

PkgSetModifiedCall ==
    \E timestamp \in Timestamps :
        PkgCall("Pkg.SetModified", <<timestamp>>, PkgSetModified(Pkg, timestamp))

NextPkg ==
    \/ PkgAddAuthorCall
    \/ PkgAddContributorCall
    \/ PkgAddIdentifierCall
    \/ PkgAddCustomMetaCall
    \/ PkgSetCoverCall
    \/ PkgSetModifiedCall

SpecPkg == Init /\ [][NextPkg]_vars

\* the positions of the meta entries with the identity (refines, property)
MetaAt(p, refines, property) ==
    {i \in 1..Len(p.Meta) :
        p.Meta[i].Refines = refines /\ p.Meta[i].Property = property}

(***************************************************************************)
(* C12: the meta sequence holds at most one entry per (refines, property)  *)
(* identity, and a write of an entry whose identity is already present     *)
(* keeps the length of the sequence.  Entries without a property (the      *)
(* name/content entries) are left out of the count.                        *)
(***************************************************************************)
C12_OneMetaPerIdentity ==
    \A i, j \in 1..Len(Pkg.Meta) :
        (/\ Pkg.Meta[i].Property # EmptyString
         /\ Pkg.Meta[i].Refines = Pkg.Meta[j].Refines
         /\ Pkg.Meta[i].Property = Pkg.Meta[j].Property) => i = j

ModifiedAt(p) == MetaAt(p, EmptyString, PropertyModified)

(***************************************************************************)
(* C13: SetModified is an upsert: after a call the meta sequence holds     *)
(* exactly one dcterms:modified entry, it holds the timestamp of the call, *)
(* and it sits where the first such entry was.                             *)
(***************************************************************************)
C13_SetModifiedIsUpsert ==
    [][last'.op = "Pkg.SetModified"
         => /\ \E i \in 1..Len(Pkg'.Meta) :
                  /\ ModifiedAt(Pkg') = {i}
                  /\ Pkg'.Meta[i].Data = last'.args[1]
            /\ ModifiedAt(Pkg) # {} => ModifiedAt(Pkg') = ModifiedAt(Pkg)]_vars

CoverMetaAt(p) == {i \in 1..Len(p.Meta) : p.Meta[i].Name = <<"cover">>}

\* a cover setting that returned, and the image filename it set
CoverSet ==
    \/ last'.op = "Pkg.SetCover"
    \/ last'.op = "SetCover" /\ last'.err = NoError
CoverSetFilename ==
    IF last'.op = "Pkg.SetCover" THEN last'.args[1] ELSE Base(last'.args[1])

(***************************************************************************)
(* C14: the legacy cover meta is upserted: after a cover setting, through  *)
(* Pkg.SetCover or Epub.SetCover, the meta sequence holds exactly one      *)
(* entry with name "cover", whose content is the base filename of the      *)
(* image just set.                                                         *)
(***************************************************************************)
C14_CoverMetaIsUpsert ==
    [][CoverSet
         => \E i \in 1..Len(Pkg'.Meta) :
                /\ CoverMetaAt(Pkg') = {i}
                /\ Pkg'.Meta[i].Content = CoverSetFilename]_vars

(***************************************************************************)
(* C15: exactly one identifier carries the id named by the root's          *)
(* unique-identifier attribute, it is the first identifier added, and      *)
(* every identifier has a type meta whose refines is "#" followed by the   *)
(* identifier's id.                                                        *)
(***************************************************************************)
C15_FirstIdentifierIsUniqueIdentifier ==
    /\ {i \in 1..Len(Pkg.Identifier) :
            Pkg.Identifier[i].ID = Pkg.UniqueIdentifier} = {1}
    /\ \A i \in 1..Len(Pkg.Identifier) :
            MetaAt(Pkg, <<"#">> \o Pkg.Identifier[i].ID, PropertyIdentifierType) # {}

\* the role entries of the meta sequence that refine the creator with this id
RoleMetaOf(p, id) ==
    {i \in 1..Len(p.Meta) :
        /\ p.Meta[i].Refines = <<"#">> \o id
        /\ p.Meta[i].Property = PropertyRole}

(***************************************************************************)
(* C16: AddAuthor(name, role) appends one creator holding the name after   *)
(* the creators already there; every creator then has exactly one role     *)
(* meta entry refining "#" followed by its id, the new creator's with      *)
(* scheme marc:relators and the role as data and the older creators' as    *)
(* they were; and no two creators share an id.                             *)
(***************************************************************************)
C16_AddAuthorAppendsCreatorAndRole ==
    [][last'.op = "Pkg.AddAuthor"
         => LET n == Len(Pkg.Creator)
                after == Pkg'.Creator
            IN  /\ Len(after) = n + 1
                /\ SubSeq(after, 1, n) = Pkg.Creator
                /\ after[n + 1].Data = last'.args[1]
                /\ \A i, j \in 1..(n + 1) : after[i].ID = after[j].ID => i = j
                /\ \A i \in 1..(n + 1) :
                       Cardinality(RoleMetaOf(Pkg', after[i].ID)) = 1
                /\ \A i \in 1..n :
                       \A k \in RoleMetaOf(Pkg', after[i].ID) :
                           k <= Len(Pkg.Meta) /\ Pkg'.Meta[k] = Pkg.Meta[k]
                /\ \A k \in RoleMetaOf(Pkg', after[n + 1].ID) :
                       /\ Pkg'.Meta[k].Scheme = SchemeMARCRelators
                       /\ Pkg'.Meta[k].Data = last'.args[2]]_vars

\* a second author, with another name and role than the first, has been added
C16_Witness ==
    /\ last.op = "Pkg.AddAuthor"
    /\ Len(Pkg.Creator) = 2
    /\ Pkg.Creator[1].Data # Pkg.Creator[2].Data
    /\ \E k \in RoleMetaOf(Pkg, Pkg.Creator[1].ID) : Pkg.Meta[k].Data # last.args[2]

(***************************************************************************)
(* C17: AddContributor(name, role) appends exactly one entry holding the   *)
(* name to the contributors and one role meta entry refining it, and       *)
(* leaves the creators unchanged; AddAuthor leaves the contributors        *)
(* unchanged.                                                              *)
(***************************************************************************)
C17_AddContributorFrame ==
    [][/\ last'.op = "Pkg.AddContributor"
            => /\ Pkg'.Creator = Pkg.Creator
               /\ Len(Pkg'.Contributor) = Len(Pkg.Contributor) + 1
               /\ SubSeq(Pkg'.Contributor, 1, Len(Pkg.Contributor)) = Pkg.Contributor
               /\ Pkg'.Contributor[Len(Pkg'.Contributor)].Data = last'.args[1]
               /\ Cardinality(
                      RoleMetaOf(Pkg', Pkg'.Contributor[Len(Pkg'.Contributor)].ID)) = 1
       /\ last'.op = "Pkg.AddAuthor" => Pkg'.Contributor = Pkg.Contributor]_vars

\* the CSS registry as SetCover has it after removing an earlier cover's
\* stylesheet (src/epub.go:310-328)
CSSAfterCoverRemoval ==
    IF cover.xhtmlFilename # EmptyString THEN MapDelete(css, cover.cssFilename) ELSE css

\* the call takes the default-stylesheet branch and both registrations of the
\* default stylesheet are refused (src/epub.go:334-357)
StylesheetStagePanics(internalCSSPath) ==
    /\ internalCSSPath = EmptyString
    /\ DefaultCoverCSS(CSSAfterCoverRemoval, EncodeBytes(defaultCoverCSSContent)).panic

(***************************************************************************)
(* C19: SetCover with an empty stylesheet path registers the default       *)
(* stylesheet, as cover.css or under the sequential fallback name, and     *)
(* never panics on a second filename collision.                            *)
(***************************************************************************)
C19_DefaultStylesheetNeverPanics ==
    [][(SetCoverStep /\ last'.args[2] = EmptyString)
         => /\ ~StylesheetStagePanics(last'.args[2])
            /\ last'.err # Panic
            /\ cover'.cssFilename \in DOMAIN css'
            /\ cover'.cssFilename \notin DOMAIN CSSAfterCoverRemoval]_vars

\* the sections as SetCover has them after removing an earlier cover's section
\* (src/epub.go:310-317)
SectionsAfterCoverRemoval ==
    IF cover.xhtmlFilename # EmptyString
    THEN RemoveSection(sections, cover.xhtmlFilename)
    ELSE sections

(***************************************************************************)
(* C20: a SetCover call that gets to the cover section (it does not end in *)
(* the stylesheet branch) never panics there: it returns with exactly one  *)
(* new section appended, under cover.xhtml or, when a section has that     *)
(* name, under a generated name no section has, and the cover's xhtml      *)
(* filename is that section's filename.                                    *)
(***************************************************************************)
C20_CoverSectionNeverPanics ==
    [][(SetCoverStep /\ ~StylesheetStagePanics(last'.args[2]))
         => LET n == Len(SectionsAfterCoverRemoval)
            IN  /\ last'.err = NoError
                /\ Len(sections') = n + 1
                /\ SubSeq(sections', 1, n) = SectionsAfterCoverRemoval
                /\ sections'[n + 1].filename = cover'.xhtmlFilename
                /\ cover'.xhtmlFilename \notin SectionFilenames(SectionsAfterCoverRemoval)
                /\ defaultCoverXhtmlFilename \notin SectionFilenames(SectionsAfterCoverRemoval)
                       => cover'.xhtmlFilename = defaultCoverXhtmlFilename]_vars

\* SetCover returned after it found cover.xhtml used by a section of the caller
C20_Witness ==
    /\ last.op = "SetCover"
    /\ last.err = NoError
    /\ cover.xhtmlFilename # defaultCoverXhtmlFilename
    /\ \E i \in 1..Len(sections) :
           /\ sections[i].filename = defaultCoverXhtmlFilename
           /\ sections[i].xhtml.body \in SectionBodies
    /\ sections[Len(sections)].filename = cover.xhtmlFilename

\* the cover section among untitled sections of the caller and stylesheets
\* named by the caller
AddUntitledSection ==
    \E b \in SectionBodies, f \in SectionFilenameRequests :
        AddSection(b, EmptyString, f, EmptyString)

NextCoverSection ==
    \/ AddNamedStylesheet
    \/ AddUntitledSection
    \/ SetCoverCall

SpecCoverSection == Init /\ [][NextCoverSection]_vars

(***************************************************************************)
(* Calls from several goroutines.  A method of Epub locks the Epub's mutex *)
(* in its first statement and unlocks it on return (src/epub.go:175-176,   *)
(* 307-308, 378-379), so it is one step here.  The methods of Pkg          *)
(* (src/pkg.go:237-349) take no lock, and e.Pkg is a public field          *)
(* (src/epub.go:121): a goroutine inside one of them can be overtaken      *)
(* between the statements that read the document and the assignment        *)
(* p.xml.Metadata.Meta = updateMeta(p.xml.Metadata.Meta, meta).  Such a    *)
(* call is two steps: PkgEnter runs the method up to the evaluation of     *)
(* updateMeta's arguments, PkgStore assigns the result.                    *)
(***************************************************************************)
NewTitles == Titles \cup {<<"Your title">>}

\* Epub.SetTitle (src/epub.go:377-382)
SetTitle(title) ==
    /\ Pkg' = PkgSetTitle(Pkg, title)
    /\ toc' = [toc EXCEPT !.title = title]
    /\ last' = [op |-> "SetTitle", args |-> <<title>>, probe |-> NoError,
                path |-> EmptyString, err |-> NoError]
    /\ UNCHANGED <<css, fonts, images, videos, sections, cover>>
    /\ OverlapRoom
    /\ callers' = Observed(last')

SetTitleCall == \E title \in NewTitles : SetTitle(title)

\* the calls of methods of e.Pkg that the goroutines make
PkgCalls ==
    {[op |-> "Pkg.AddAuthor",
      args |-> <<<<"Hingle McCringleberry">>, PropertyRoleAuthor>>],
     [op |-> "Pkg.AddContributor",
      args |-> <<<<"Jane Doe">>, PropertyRoleTranslator>>],
     [op |-> "Pkg.AddIdentifier",
      args |-> <<<<"doi:10.1000/182">>, SchemeXSDString, PropertyIdentifierTypeDOI>>],
     [op |-> "Pkg.AddCustomMeta", args |-> <<<<"generator">>, <<"go-epub">>>>],
     [op |-> "Pkg.SetCover",
      args |-> <<imageFileFormat \o FormatPadded(2) \o ToLower(Ext(SourcePicture))>>],
     [op |-> "Pkg.SetModified", args |-> <<<<"2026-01-01T00:00:00Z">>>>]}

\* what a call does to the package document when no other call overlaps it;
\* of the methods of Epub, SetCover (src/epub.go:331) and SetTitle
\* (src/epub.go:380) write to it
PkgEffect(p, call) ==
    CASE call.op = "Pkg.AddAuthor" -> PkgAddAuthor(p, call.args[1], call.args[2])
      [] call.op = "Pkg.AddContributor" ->
            PkgAddContributor(p, call.args[1], call.args[2])
      [] call.op = "Pkg.AddIdentifier" ->
            PkgAddIdentifier(p, call.args[1], call.args[2], call.args[3])
      [] call.op = "Pkg.AddCustomMeta" ->
            PkgAddCustomMeta(p, call.args[1], call.args[2])
      [] call.op = "Pkg.SetCover" -> PkgSetCover(p, call.args[1])
      [] call.op = "Pkg.SetModified" -> PkgSetModified(p, call.args[1])
      [] call.op = "SetCover" -> PkgSetCover(p, Base(call.args[1]))
      [] call.op = "SetTitle" -> PkgSetTitle(p, call.args[1])
      [] OTHER -> p

\* goroutine t enters a method of e.Pkg: the statements before the assignment
\* to Metadata.Meta run, and the document it has read is kept
PkgEnter(t) ==
    /\ callers.pc[t] = "idle"
    /\ OverlapRoom
    /\ \E call \in PkgCalls :
       \E p \in {PkgEffect(Pkg, call)} :
           /\ Len(p.Creator) <= MaxCreators
           /\ Len(p.Identifier) <= MaxIdentifiers
           /\ Len(p.Meta) <= MaxMeta
           /\ Pkg' = [p EXCEPT !.Meta = Pkg.Meta]
           /\ callers' = [callers EXCEPT !.pc[t] = "store", !.call[t] = call,
                                         !.snap[t] = Pkg,
                                         !.base = IF Idle THEN Pkg ELSE @,
                                         !.done = IF Idle THEN << >> ELSE @]
    /\ UNCHANGED <<css, fonts, images, videos, sections, cover, toc, last>>

\* goroutine t assigns the result of updateMeta and returns
PkgStore(t) ==
    /\ callers.pc[t] = "store"
    /\ \E meta \in {PkgEffect(callers.snap[t], callers.call[t]).Meta} :
           /\ Len(meta) <= MaxMeta
           /\ Pkg' = [Pkg EXCEPT !.Meta = meta]
    /\ last' = [op |-> callers.call[t].op, args |-> callers.call[t].args,
                probe |-> NoError, path |-> EmptyString, err |-> NoError]
    /\ callers' = [callers EXCEPT !.pc[t] = "idle", !.call[t] = NoCall,
                                  !.snap[t] = NewPkg,
                                  !.done = Append(@, callers.call[t])]
    /\ UNCHANGED <<css, fonts, images, videos, sections, cover, toc>>

\* Epub.SetCover with the picture's path and the default stylesheet
SetPictureCover ==
    SetCover(PathJoin(ImageFolderName, Base(SourcePicture)), EmptyString)

NextConcurrent ==
    \/ \E t \in Goroutines : PkgEnter(t)
    \/ \E t \in Goroutines : PkgStore(t)
    \/ SetPictureCover
    \/ SetTitleCall

SpecConcurrent == Init /\ [][NextConcurrent]_vars

\* the orders in which n calls can be made one after the other
SerialOrders(n) ==
    {o \in [1..n -> 1..n] : \A i, j \in 1..n : i # j => o[i] # o[j]}

\* the package document after the calls, made one at a time in this order
RECURSIVE PkgAfter(_, _, _, _)
PkgAfter(p, calls, order, i) ==
    IF i > Len(calls)
    THEN p
    ELSE PkgAfter(PkgEffect(p, calls[order[i]]), calls, order, i + 1)

(***************************************************************************)
(* C18: calls made concurrently have the effect of some serial order of    *)
(* those calls: when every call has returned, the package document is the  *)
(* one that the calls, made one after the other in some order, leave.      *)
(***************************************************************************)
C18_ConcurrentCallsSerialize ==
    (Idle /\ callers.done # << >>)
        => \E o \in SerialOrders(Len(callers.done)) :
               Pkg = PkgAfter(callers.base, callers.done, o, 1)

(***************************************************************************)
(* The title, set through the Epub and through e.Pkg.                      *)
(***************************************************************************)
\* Pkg.SetTitle called on the public field e.Pkg
PkgSetTitleCall ==
    \E title \in NewTitles :
        PkgCall("Pkg.SetTitle", <<title>>, PkgSetTitle(Pkg, title))

NextTitle ==
    \/ SetTitleCall
    \/ PkgSetTitleCall
    \/ AddSectionCall

SpecTitle == Init /\ [][NextTitle]_vars

(***************************************************************************)
(* C21: the title of the table of contents and the title of the package    *)
(* document are equal in every reachable state.                            *)
(***************************************************************************)
C21_TitlesInSync == toc.title = Pkg.Title

(***************************************************************************)
(* The table of contents.  toc.go and write.go are not among the sources;  *)
(* the entries are those of the specification: the sections with a         *)
(* non-empty title, in the order of the section sequence, each with its    *)
(* title and its location.                                                 *)
(***************************************************************************)
RECURSIVE TocEntries(_)
TocEntries(secs) ==
    IF secs = << >> THEN << >>
    ELSE IF Head(secs).xhtml.title # EmptyString
    THEN <<[label |-> Head(secs).xhtml.title,
            targetPath |-> RelativePath(xhtmlFolderName, Head(secs).filename)]>>
             \o TocEntries(Tail(secs))
    ELSE TocEntries(Tail(secs))

\* a Write that meets no failure, at one reading of the clock
WriteWritten ==
    \E o \in OutputPaths, now \in {CHOOSE s \in Timestamps : TRUE} :
        Write(o, "written", now, FirstOrder(css), FirstOrder(fonts),
              FirstOrder(images), FirstOrder(videos))

NextToc ==
    \/ AddSectionAuto
    \/ SetPictureCover
    \/ WriteWritten

SpecToc == Init /\ [][NextToc]_vars

\* the positions of the sections that SetCover made
CoverSectionsAt ==
    {i \in 1..Len(sections) : sections[i].xhtml.body \notin SectionBodies}

WriteRefused ==
    \E o \in OutputPaths, outcome \in {"no staging", "no archive"},
       now \in {CHOOSE s \in Timestamps : TRUE} :
        Write(o, outcome, now, FirstOrder(css), FirstOrder(fonts),
              FirstOrder(images), FirstOrder(videos))

NextExport ==
    \/ AddSectionAuto
    \/ SetPictureCover
    \/ WriteWritten
    \/ WriteRefused

SpecExport == Init /\ [][NextExport]_vars

\* C23: a Write whose staging directory or archive cannot be created returns
\* UnableToCreateEpubError for the given output path, wrapping the file
\* system's error: never success, never another kind of error; the call
\* leaves the registries, the sections, the cover and the table of contents
\* as they were.
C23_RefusedWriteIsUnableToCreate ==
    [][(last'.op = "Write" /\ last'.probe = ErrPermission)
       => /\ last'.err.kind = "UnableToCreateEpubError"
          /\ last'.err.Path = last'.args[1]
          /\ last'.err.Err = last'.probe
          /\ last'.err # NoError
          /\ UNCHANGED <<css, fonts, images, videos, sections, cover, toc>>]_vars
\* a refused Write of a publication with a cover and a section
C23_Witness ==
    /\ last.op = "Write"
    /\ last.probe = ErrPermission
    /\ last.err.kind = "UnableToCreateEpubError"
    /\ Len(sections) = 2
    /\ CoverSectionsAt # {}


(***************************************************************************)
(* Filenames are unique within a class only.                               *)
(***************************************************************************)
\* a section stored under the filename callers request for resources
AddSectionNamedAsMedia ==
    \E b \in SectionBodies :
        AddSection(b, EmptyString, defaultCoverCSSFilename, EmptyString)

\* the adds of the four classes under one requested filename
AddCSSNamed ==
    \E s \in Sources, p \in ProbeResults : AddCSS(s, defaultCoverCSSFilename, p)
AddFontNamed ==
    \E s \in Sources, p \in ProbeResults : AddFont(s, defaultCoverCSSFilename, p)
AddImageNamed ==
    \E s \in Sources, p \in ProbeResults : AddImage(s, defaultCoverCSSFilename, p)
AddVideoNamed ==
    \E s \in Sources, p \in ProbeResults : AddVideo(s, defaultCoverCSSFilename, p)

NextClasses ==
    \/ AddCSSNamed
    \/ AddFontNamed
    \/ AddImageNamed
    \/ AddVideoNamed
    \/ AddImageAuto
    \/ AddSectionNamedAsMedia

SpecClasses == Init /\ [][NextClasses]_vars

\* the registries of the classes other than the one `op` works on
OtherRegistries(op) ==
    CASE op = "AddCSS" -> <<fonts, images, videos>>
      [] op = "AddFont" -> <<css, images, videos>>
      [] op = "AddImage" -> <<css, fonts, videos>>
      [] op = "AddVideo" -> <<css, fonts, images>>
OtherRegistriesAfter(op) ==
    CASE op = "AddCSS" -> <<fonts', images', videos'>>
      [] op = "AddFont" -> <<css', images', videos'>>
      [] op = "AddImage" -> <<css', fonts', videos'>>
      [] op = "AddVideo" -> <<css', fonts', images'>>

\* C24: filename uniqueness is per class.  A resource add whose source passes
\* the existence check and whose requested filename is no key of its own
\* class's registry succeeds and binds the name to the source, whether or not
\* the name is used in other classes' registries or by a section; and every
\* resource add leaves the other three registries and the section sequence
\* as they were.
C24_UniquenessIsPerClass ==
    [][AddStep
       => /\ (/\ AddRequested # EmptyString
              /\ last'.probe = NoError
              /\ AddRequested \notin DOMAIN RegistryOf(last'.op))
             => /\ last'.err = NoError
                /\ last'.path = PathJoin(FolderOf(last'.op), AddRequested)
                /\ AddRequested \in DOMAIN RegistryAfter(last'.op)
                /\ RegistryAfter(last'.op)[AddRequested] = AddSource
          /\ OtherRegistriesAfter(last'.op) = OtherRegistries(last'.op)
          /\ sections' = sections]_vars

\* an add has succeeded under a name that two other classes and a section
\* use as well
C24_Witness ==
    /\ last.op \in AddOps
    /\ last.err = NoError
    /\ last.args[2] # EmptyString
    /\ last.args[2] \in DOMAIN RegistryOf(last.op)
    /\ Cardinality({i \in 1..3 : last.args[2] \in DOMAIN OtherRegistries(last.op)[i]}) = 2
    /\ \E i \in 1..Len(sections) : sections[i].filename = last.args[2]


(***************************************************************************)
(* The internal filename chosen for an empty requested filename.           *)
(***************************************************************************)
\* a source whose base name is one character longer than the limit
SourceLong ==
    <<"t", "/">> \o [i \in 1..(MaxFilenameLen - 3) |-> "a"] \o <<".", "J", "P", "G">>
\* a source whose base name is no valid relative path
SourceDots == <<"t", "/", ".", ".">>
NamingSources == {SourcePicture, SourceLong, SourceDots}

AddCSSChosen ==
    \E s \in NamingSources, p \in ProbeResults : AddCSS(s, EmptyString, p)
AddImageChosen ==
    \E s \in NamingSources, p \in ProbeResults : AddImage(s, EmptyString, p)

NextChosen ==
    \/ AddCSSChosen
    \/ AddImageChosen

SpecChosen == Init /\ [][NextChosen]_vars

\* the text each class's sequential names start with
ClassPrefix(op) ==
    CASE op = "AddCSS" -> <<"c", "s", "s">>
      [] op = "AddFont" -> <<"f", "o", "n", "t">>
      [] op = "AddImage" -> <<"i", "m", "a", "g", "e">>
      [] op = "AddVideo" -> <<"v", "i", "d", "e", "o">>

\* the name the claim gives to an add of `source` by `op` in the current state
ClaimedName(op, source) ==
    IF /\ Len(Base(source)) <= 255
       /\ ValidPath(Base(source))
       /\ Base(source) \notin DOMAIN RegistryOf(op)
    THEN Base(source)
    ELSE ClassPrefix(op) \o FormatPadded(MapLen(RegistryOf(op)) + 1)
             \o ToLower(Ext(source))

\* C25: with an empty requested filename and a source that passes the
\* existence check, the internal filename the add settles on is the source's
\* base name if that is at most 255 long, a valid relative path and no key of
\* the class's registry, and otherwise the class prefix, the zero-padded
\* index (registry size + 1) and the lower-cased source extension.  The name
\* settled on is the one the add registers and returns, or the one its
\* FilenameAlreadyUsedError carries.
C25_ChosenNameForEmptyFilename ==
    [][(AddStep /\ AddRequested = EmptyString /\ last'.probe = NoError)
       => LET name == ClaimedName(last'.op, AddSource)
          IN  IF last'.err = NoError
              THEN /\ last'.path = PathJoin(FolderOf(last'.op), name)
                   /\ name \in DOMAIN RegistryAfter(last'.op)
                   /\ name \notin DOMAIN RegistryOf(last'.op)
                   /\ RegistryAfter(last'.op)[name] = AddSource
              ELSE last'.err = FilenameAlreadyUsedError(name)]_vars

\* the third image: its base name B.PNG is taken, so it is image0003.png; the
\* registry also holds a name generated for the over-long base name
C25_Witness ==
    /\ last.op = "AddImage"
    /\ last.args = <<SourcePicture, EmptyString>>
    /\ last.err = NoError
    /\ Base(last.path) = <<"i", "m", "a", "g", "e", "0", "0", "0", "3", ".", "p", "n", "g">>
    /\ DOMAIN images =
          {<<"B", ".", "P", "N", "G">>,
           <<"i", "m", "a", "g", "e", "0", "0", "0", "2", ".", "j", "p", "g">>,
           <<"i", "m", "a", "g", "e", "0", "0", "0", "3", ".", "p", "n", "g">>}


(***************************************************************************)
(* The generated section filename is the lowest free one.                  *)
(***************************************************************************)
\* k is the smallest index from 1 on whose section name is none of `names`
LowestFreeIndex(k, names) ==
    /\ SectionName(k) \notin names
    /\ \A j \in 1..(k - 1) : SectionName(j) \in names

\* the sections of the next state other than the last, appended one
EarlierSections == SubSeq(sections', 1, Len(sections') - 1)

\* C26: for an empty requested filename AddSection returns section%04d.xhtml
\* with the smallest index k >= 1 whose name no existing section has and
\* appends the section under it; the same search names the cover section when
\* cover.xhtml is taken, so that a replaced cover's index is used again
\* instead of the section count + 1.
C26_GeneratedSectionNameIsLowestFree ==
    [][/\ (AddSectionStep /\ SectionRequested = EmptyString)
          => /\ \E k \in 1..(Len(sections) + 1) :
                   /\ last'.path = SectionName(k)
                   /\ LowestFreeIndex(k, SectionFilenames(sections))
             /\ sections'[Len(sections')].filename = last'.path
       /\ (/\ last'.op = "SetCover"
           /\ last'.err = NoError
           /\ cover'.xhtmlFilename # defaultCoverXhtmlFilename)
          => \E k \in 1..Len(sections') :
                /\ cover'.xhtmlFilename = SectionName(k)
                /\ sections'[Len(sections')].filename = SectionName(k)
                /\ LowestFreeIndex(k, SectionFilenames(EarlierSections))]_vars

\* section0002.xhtml was named explicitly and the cover sits under
\* cover.xhtml; the generated name is section0001.xhtml, not the count + 1
C26_Witness ==
    /\ last.op = "AddSection"
    /\ last.args[3] = EmptyString
    /\ last.path = SectionName(1)
    /\ Len(sections) = 3
    /\ sections[1].filename = SectionName(2)
    /\ sections[2].filename = defaultCoverXhtmlFilename
    /\ cover.xhtmlFilename = defaultCoverXhtmlFilename


(***************************************************************************)
(* C27: in a resource add the source is validated before the filename is   *)
(* compared with the registry: a source the existence check rejects gets   *)
(* FileRetrievalError also when the requested filename is a key of the     *)
(* class's registry, and FilenameAlreadyUsedError is returned only for a   *)
(* source that passed the check.                                           *)
(***************************************************************************)
C27_ValidationBeforeCollision ==
    [][AddStep
       => /\ (/\ last'.probe # NoError
              /\ AddRequested \in DOMAIN RegistryOf(last'.op))
             => /\ last'.err.kind = "FileRetrievalError"
                /\ last'.err.Source = AddSource
          /\ last'.err.kind = "FilenameAlreadyUsedError"
             => checkMedia(AddSource, last'.probe) = NoError]_vars

\* a rejected source under a requested filename that the registry holds
C27_Witness ==
    /\ last.op \in AddOps
    /\ last.probe = ErrNotFound
    /\ last.err.kind = "FileRetrievalError"
    /\ last.args[2] # EmptyString
    /\ last.args[2] \in DOMAIN RegistryOf(last.op)


(***************************************************************************)
(* C28: the cover never points at an unregistered resource.  After every   *)
(* SetCover call that returns and whose image path, and stylesheet path if *)
(* one is given, names a resource registered when the call is made, the    *)
(* cover's image filename is a key of the image registry and its CSS       *)
(* filename is a key of the CSS registry; the call may pass the image or   *)
(* the stylesheet of the cover it replaces.                                *)
(***************************************************************************)
C28_CoverResourcesRegistered ==
    [][(/\ last'.op = "SetCover"
        /\ last'.err = NoError
        /\ last'.args[1] \in ImagePaths
        /\ last'.args[2] \in CSSPaths \cup {EmptyString})
       => /\ cover'.imageFilename = Base(last'.args[1])
          /\ cover'.imageFilename \in DOMAIN images'
          /\ cover'.cssFilename \in DOMAIN css']_vars


(***************************************************************************)
(* C29: the id values of the identifier, creator and contributor entries   *)
(* of the package document are pairwise distinct, the identifier that      *)
(* NewEpub adds included, so that a meta entry's refines value designates  *)
(* exactly one of them.                                                    *)
(***************************************************************************)
\* the entries that carry an id, in the order identifier, creator, contributor
EntriesWithID(p) == p.Identifier \o p.Creator \o p.Contributor

C29_EntryIDsDistinct ==
    /\ \A i, j \in 1..Len(EntriesWithID(Pkg)) :
          i # j => EntriesWithID(Pkg)[i].ID # EntriesWithID(Pkg)[j].ID
    /\ \A m \in 1..Len(Pkg.Meta) :
          Pkg.Meta[m].Refines # EmptyString
             => Cardinality({i \in 1..Len(EntriesWithID(Pkg)) :
                    <<"#">> \o EntriesWithID(Pkg)[i].ID = Pkg.Meta[m].Refines}) = 1


(***************************************************************************)
(* The manifest ids of a written package document.                         *)
(***************************************************************************)
\* resources of two classes under one filename, sections, and the export
NextIds ==
    \/ AddCSSNamed
    \/ AddImageNamed
    \/ AddSectionAuto
    \/ WriteWritten

SpecIds == Init /\ [][NextIds]_vars

\* C30: the manifest item ids of a written package document are pairwise
\* distinct, also when one filename is registered in two classes.  The
\* property is stated for the first Write of a publication, whose manifest
\* is empty before the call, so that items left by an earlier Write play no
\* part.
C30_ManifestIDsDistinct ==
    [][(/\ last'.op = "Write"
        /\ last'.err = NoError
        /\ Pkg.ManifestItems = << >>)
       => \A i, j \in 1..Len(Pkg'.ManifestItems) :
             i # j => Pkg'.ManifestItems[i].ID # Pkg'.ManifestItems[j].ID]_vars


(***************************************************************************)
(* Goroutines calling the locked methods of one Epub.  A call is issued,   *)
(* takes the mutex (e.Lock()), runs its body statement by statement, and   *)
(* gives the mutex back on its way out (defer e.Unlock()).                 *)
(***************************************************************************)
\* the successful adds that the goroutines' calls make between them
MaxAdds == 3

\* the calls a goroutine has issued and not yet returned from
InFlight(ops) ==
    Cardinality({t \in Goroutines :
                    callers.pc[t] # "idle" /\ callers.call[t].op \in ops})

\* the adds goroutines make: a section and an image, each under a name the
\* publication chooses
LockedAdds ==
    {[op |-> "AddSection",
      args |-> <<b, <<"Section 1">>, EmptyString, EmptyString>>] : b \in SectionBodies}
        \cup {[op |-> "AddImage", args |-> <<s, EmptyString>>] : s \in Sources}

\* goroutine t calls a method; the call waits for the mutex
Issue(t, calls) ==
    /\ callers.pc[t] = "idle"
    /\ ~callers.exited
    /\ \E call \in calls :
          /\ call.op \in {"AddSection", "SetCover"}
                => Len(sections) + InFlight({"AddSection", "SetCover"}) < MaxSections
          /\ call.op \in {"AddImage", "AddCSS", "SetCover"}
                => TotalMedia + InFlight({"AddImage", "AddCSS", "SetCover"}) < MaxMedia
          /\ call.op \in {"AddSection", "AddImage"}
                => Len(callers.returned) + InFlight({"AddSection", "AddImage"}) < MaxAdds
          /\ callers' = [callers EXCEPT !.pc[t] = "lock", !.call[t] = call]
    /\ UNCHANGED <<css, fonts, images, videos, sections, cover, Pkg, toc, last>>

IssueAdd(t) == Issue(t, LockedAdds)

\* a mutex that is handed out although it is held
LockNoWait(t) ==
    /\ callers.pc[t] = "lock"
    /\ ~callers.exited
    /\ callers' = [callers EXCEPT
                      !.mutex = t, !.pc[t] = "body",
                      !.contended[t] = \E u \in Goroutines \ {t} :
                                           callers.pc[u] # "idle"]
    /\ UNCHANGED <<css, fonts, images, videos, sections, cover, Pkg, toc, last>>

\* e.Lock(): blocks while another goroutine holds the mutex
Lock(t) ==
    /\ callers.pc[t] = "lock"
    /\ ~callers.exited
    /\ callers.mutex = 0
    /\ callers' = [callers EXCEPT
                      !.mutex = t, !.pc[t] = "body",
                      !.contended[t] = \E u \in Goroutines \ {t} :
                                           callers.pc[u] # "idle"]
    /\ UNCHANGED <<css, fonts, images, videos, sections, cover, Pkg, toc, last>>

\* addSection up to the construction of the section (src/epub.go:261-279): the
\* filename is settled by reading e.sections, or the call returns an error
ScanSections(t) ==
    /\ callers.pc[t] = "body"
    /\ ~callers.exited
    /\ callers.call[t].op = "AddSection"
    /\ LET args == callers.call[t].args
           r == addSection(sections, args[1], args[2], args[3], args[4])
       IN  IF r.err # NoError
           THEN /\ last' = Called("AddSection", args, NoError, r)
                /\ callers' = [callers EXCEPT !.pc[t] = "unlock"]
           ELSE /\ last' = last
                /\ callers' = [callers EXCEPT !.pc[t] = "append",
                                              !.name[t] = r.path]
    /\ UNCHANGED <<css, fonts, images, videos, sections, cover, Pkg, toc>>

\* e.sections = append(e.sections, s); return internalFilename, nil
\* (src/epub.go:281-294)
AppendSection(t) ==
    /\ callers.pc[t] = "append"
    /\ ~callers.exited
    /\ LET args == callers.call[t].args
           name == callers.name[t]
       IN  /\ sections' = Append(sections,
                  [filename |-> name,
                   xhtml |-> NewXhtml(args[1], args[2], args[4])])
           /\ last' = [op |-> "AddSection", args |-> args, probe |-> NoError,
                       path |-> name, err |-> NoError]
           /\ callers' = [callers EXCEPT
                  !.pc[t] = "unlock",
                  !.returned = Append(@, [op |-> "AddSection",
                                          source |-> EmptyString, path |-> name,
                                          contended |-> callers.contended[t]])]
    /\ UNCHANGED <<css, fonts, images, videos, cover, Pkg, toc>>

\* addMedia up to the collision check (src/epub.go:387-410), for an image
CheckImage(t) ==
    /\ callers.pc[t] = "body"
    /\ ~callers.exited
    /\ callers.call[t].op = "AddImage"
    /\ \E probe \in ProbeResults :
          LET args == callers.call[t].args
              r == addMedia(args[1], args[2], imageFileFormat, ImageFolderName,
                            images, probe)
          IN  IF r.err # NoError
              THEN /\ last' = Called("AddImage", args, probe, r)
                   /\ callers' = [callers EXCEPT !.pc[t] = "unlock"]
              ELSE /\ last' = last
                   /\ callers' = [callers EXCEPT
                          !.pc[t] = "store",
                          !.name[t] = ChosenMediaName(args[1], args[2],
                                                      imageFileFormat, images)]
    /\ UNCHANGED <<css, fonts, images, videos, sections, cover, Pkg, toc>>

\* mediaMap[internalFilename] = source and the return (src/epub.go:412-418)
StoreImage(t) ==
    /\ callers.pc[t] = "store"
    /\ ~callers.exited
    /\ LET args == callers.call[t].args
           name == callers.name[t]
       IN  /\ images' = MapPut(images, name, args[1])
           /\ last' = [op |-> "AddImage", args |-> args, probe |-> NoError,
                       path |-> PathJoin(ImageFolderName, name), err |-> NoError]
           /\ callers' = [callers EXCEPT
                  !.pc[t] = "unlock",
                  !.returned = Append(@, [op |-> "AddImage",
                                          source |-> args[1], path |-> name,
                                          contended |-> callers.contended[t]])]
    /\ UNCHANGED <<css, fonts, videos, sections, cover, Pkg, toc>>

\* the deferred e.Unlock() of a call that returns or panics; the panic goes on
\* up the goroutine's stack
Unlock(t) ==
    /\ callers.pc[t] = "unlock"
    /\ ~callers.exited
    /\ callers' = [callers EXCEPT !.mutex = 0,
                                  !.pc[t] = IF callers.panicking = t THEN "panic"
                                            ELSE "idle",
                                  !.call[t] = NoCall, !.name[t] = EmptyString,
                                  !.contended[t] = FALSE]
    /\ UNCHANGED <<css, fonts, images, videos, sections, cover, Pkg, toc, last>>

NextLocked ==
    \/ \E t \in Goroutines : IssueAdd(t)
    \/ \E t \in Goroutines : Lock(t)
    \/ \E t \in Goroutines : ScanSections(t)
    \/ \E t \in Goroutines : AppendSection(t)
    \/ \E t \in Goroutines : CheckImage(t)
    \/ \E t \in Goroutines : StoreImage(t)
    \/ \E t \in Goroutines : Unlock(t)

SpecLocked == Init /\ [][NextLocked]_vars

\* the successful adds of `op` so far
ReturnedBy(op) ==
    {i \in 1..Len(callers.returned) : callers.returned[i].op = op}

(***************************************************************************)
(* C31: concurrent AddSection calls with an empty filename return pairwise *)
(* distinct filenames and each of their sections is in the section         *)
(* sequence afterwards; concurrent adds to the image registry return       *)
(* pairwise distinct names, each still bound to the source of the call     *)
(* that registered it.  No call's update is lost.                          *)
(***************************************************************************)
C31_ConcurrentAddsKeepEveryEntry ==
    LET R == callers.returned
    IN  /\ \A i, j \in 1..Len(R) :
              (i # j /\ R[i].op = R[j].op) => R[i].path # R[j].path
        /\ \A i \in ReturnedBy("AddSection") :
              \E k \in 1..Len(sections) : sections[k].filename = R[i].path
        /\ Len(sections) = Cardinality(ReturnedBy("AddSection"))
        /\ \A i \in ReturnedBy("AddImage") :
              /\ R[i].path \in DOMAIN images
              /\ images[R[i].path] = R[i].source
        /\ MapLen(images) = Cardinality(ReturnedBy("AddImage"))

\* every call has returned; two sections were added by calls that took the
\* mutex while the other goroutine's call was in flight, and the registry
\* holds an image
C31_Witness ==
    LET R == callers.returned
    IN  /\ \A t \in Goroutines : callers.pc[t] = "idle"
        /\ \E i, j \in ReturnedBy("AddSection") :
              i < j /\ R[i].contended /\ R[j].contended
        /\ ReturnedBy("AddImage") # {}


(***************************************************************************)
(* Every locked call comes back.  The bodies of AddCSS and SetCover run    *)
(* as one step each under the mutex; SetCover may panic (src/epub.go:350,  *)
(* 355, 370), and a panic that the caller does not recover ends the        *)
(* process.                                                                *)
(***************************************************************************)
LockedCalls ==
    {[op |-> "AddSection",
      args |-> <<b, <<"Section 1">>, EmptyString, EmptyString>>] : b \in SectionBodies}
        \cup {[op |-> "AddCSS", args |-> <<SourceStylesheet, f>>] :
                 f \in {defaultCoverCSSFilename, Base(SourceStylesheet)}}
        \cup {[op |-> "SetCover",
               args |-> <<PathJoin(ImageFolderName, Base(SourcePicture)), EmptyString>>]}

IssueCall(t) == Issue(t, LockedCalls)

\* the body of AddCSS or of SetCover, run by the goroutine that holds the mutex
RunLocked(t) ==
    /\ callers.pc[t] = "body"
    /\ ~callers.exited
    /\ callers.mutex = t
    /\ \/ /\ callers.call[t].op = "AddCSS"
          /\ AddCSS(callers.call[t].args[1], callers.call[t].args[2], NoError)
       \/ /\ callers.call[t].op = "SetCover"
          /\ SetCover(callers.call[t].args[1], callers.call[t].args[2])

\* the caller of the panicking call recovers, and goes on
Recover(t) ==
    /\ callers.pc[t] = "panic"
    /\ ~callers.exited
    /\ callers' = [callers EXCEPT !.pc[t] = "idle", !.panicking = 0]
    /\ UNCHANGED <<css, fonts, images, videos, sections, cover, Pkg, toc, last>>

\* nothing recovers: the panic reaches the top of the goroutine's stack and
\* the runtime ends the process, with every other goroutine where it is
Crash(t) ==
    /\ callers.pc[t] = "panic"
    /\ ~callers.exited
    /\ callers' = [callers EXCEPT !.exited = TRUE]
    /\ UNCHANGED <<css, fonts, images, videos, sections, cover, Pkg, toc, last>>

NextFair ==
    \/ \E t \in Goroutines : IssueCall(t)
    \/ \E t \in Goroutines : Lock(t)
    \/ \E t \in Goroutines : ScanSections(t)
    \/ \E t \in Goroutines : AppendSection(t)
    \/ \E t \in Goroutines : RunLocked(t)
    \/ \E t \in Goroutines : Unlock(t)
    \/ \E t \in Goroutines : Recover(t)
    \/ \E t \in Goroutines : Crash(t)

\* a fair scheduler: a goroutine that can take a step takes one, and the
\* mutex is not forever given to others past a goroutine that waits for it
\* (sync.Mutex hands over to the longest waiter); when to call is the
\* callers' business
\* what goroutine t does next once it has the mutex; its position decides
\* which of these it is
Proceed(t) ==
    \/ ScanSections(t)
    \/ AppendSection(t)
    \/ RunLocked(t)
    \/ Unlock(t)
    \/ Recover(t)
    \/ Crash(t)

SpecFair ==
    /\ Init
    /\ [][NextFair]_vars
    /\ \A t \in Goroutines : SF_vars(Lock(t)) /\ WF_vars(Proceed(t))

\* the mutex is held exactly by the goroutine that is inside a body or at its
\* deferred Unlock, and no goroutine past its Unlock holds it
MutexDiscipline ==
    \A t \in Goroutines :
        callers.mutex = t <=> callers.pc[t] \in {"body", "append", "unlock"}

(***************************************************************************)
(* C32: the lock never deadlocks.  Every locked operation releases the     *)
(* mutex on every exit, none takes it while holding it, and the filename   *)
(* search of AddSection terminates, so that under a fair scheduler every   *)
(* call that has been issued eventually completes: it returns to its       *)
(* caller, or leaves by the panic of SetCover.                             *)
(***************************************************************************)
C32_EveryIssuedCallCompletes ==
    \A t \in Goroutines :
        (callers.pc[t] = "lock") ~> (callers.pc[t] \in {"idle", "panic"})

=============================================================================
